---- MODULE Spec2Model ----
(***************************************************************************)
(* Model of the data normalization and comparison engine of the bank       *)
(* product dashboard: modules/normalizer.py (DataNormalizer),              *)
(* modules/comparator.py (ProductComparator), modules/utils.py and the     *)
(* configuration tables of configs/schemas.py.                             *)
(*                                                                         *)
(* Encoding of Python data.                                                *)
(*  - A Python str is a sequence of characters.  A character is a TLA+     *)
(*    string: ASCII characters stand for themselves ("1", "%", "a"); a     *)
(*    Cyrillic letter is written as "_" followed by its Latin              *)
(*    transliteration, capital letters in upper case ("_N" is Н, "_d" is   *)
(*    д, "_j" is й); "RUB" is the rouble sign ₽.  So Н/Д is                 *)
(*    <<"_N", "/", "_D">> and the Latin "d" differs from the Cyrillic "_d". *)
(*  - A fixed message of the comparator is one character in angle          *)
(*    brackets ("<...>"), followed by the characters of the value the      *)
(*    f-string appends.                                                    *)
(*  - Dictionary keys are atomic: the source's Russian field names are     *)
(*    transliterated ("stavka" is ставка).  A dict is the sequence of its   *)
(*    <<key, value>> pairs in insertion order.                             *)
(*  - A float is a decimal num / 10^e, or an infinity; NaN is outside the  *)
(*    input domain.                                                        *)
(***************************************************************************)
EXTENDS Integers, Sequences, FiniteSets, TLC

VARIABLES call, result, prev

vars == <<call, result, prev>>

-----------------------------------------------------------------------------
(* Python values *)

PyNone == [t |-> "NoneType"]
PyBool(b) == [t |-> "bool", b |-> b]
PyInt(n) == [t |-> "int", n |-> n]
PyFloat(num, e) == [t |-> "float", num |-> num, e |-> e]
PyInf == [t |-> "float", inf |-> 1]
PyNaN == [t |-> "float", nan |-> TRUE]
PyStr(s) == [t |-> "str", s |-> s]
PyDict(d) == [t |-> "dict", d |-> d]

IsNone(v) == v.t = "NoneType"
IsStr(v) == v.t = "str"
IsDict(v) == v.t = "dict"
IsInf(v) == v.t = "float" /\ "inf" \in DOMAIN v
IsNaN(v) == v.t = "float" /\ "nan" \in DOMAIN v

(* An integer, or an integer-valued float, of ten to seventeen digits is    *)
(* held as the sequence of its decimal digits.                              *)
PyBigInt(digits) == [t |-> "int", big |-> digits]
PyBigFloat(digits) == [t |-> "float", big |-> digits]
IsBig(v) == "big" \in DOMAIN v

(* The outcome of a call: a returned value, or an exception that propagates. *)
Return(v) == [ok |-> TRUE, v |-> v]
Raise(exc) == [ok |-> FALSE, exc |-> exc]

(* bool(v): Python truthiness, as used by "if x", "x or y", "not x". *)
Truthy(v) ==
    CASE v.t = "NoneType" -> FALSE
      [] v.t = "bool" -> v.b
      [] v.t = "int" -> IsBig(v) \/ v.n # 0
      [] v.t = "float" -> IsInf(v) \/ IsNaN(v) \/ IsBig(v) \/ v.num # 0
      [] v.t = "str" -> v.s # <<>>
      [] v.t = "dict" -> v.d # <<>>

(* v == 0 in Python: numbers compare by value, and False is 0. *)
EqualsZero(v) ==
    CASE v.t = "bool" -> ~v.b
      [] v.t = "int" -> ~IsBig(v) /\ v.n = 0
      [] v.t = "float" -> ~IsInf(v) /\ ~IsNaN(v) /\ ~IsBig(v) /\ v.num = 0
      [] OTHER -> FALSE

-----------------------------------------------------------------------------
(* Characters and strings *)

Digits == <<"0", "1", "2", "3", "4", "5", "6", "7", "8", "9">>
IsDigit(c) == \E i \in 1..10 : Digits[i] = c
DigitValue(c) == (CHOOSE i \in 1..10 : Digits[i] = c) - 1

ND == <<"_N", "/", "_D">>
RUB == "RUB"

UpperCase ==
    <<"A", "B", "C", "D", "E", "F", "G", "H", "I", "J", "K", "L", "M", "N",
      "O", "P", "Q", "R", "S", "T", "U", "V", "W", "X", "Y", "Z", "_A",
      "_B", "_V", "_G", "_D", "_E", "_ZH", "_Z", "_I", "_J", "_K", "_L",
      "_M", "_N", "_O", "_P", "_R", "_S", "_T", "_U", "_F", "_H", "_C",
      "_CH", "_SH", "_SCH", "_HARD", "_Y", "_SOFT", "_EH", "_YU", "_YA">>

LowerCase ==
    <<"a", "b", "c", "d", "e", "f", "g", "h", "i", "j", "k", "l", "m", "n",
      "o", "p", "q", "r", "s", "t", "u", "v", "w", "x", "y", "z", "_a",
      "_b", "_v", "_g", "_d", "_e", "_zh", "_z", "_i", "_j", "_k", "_l",
      "_m", "_n", "_o", "_p", "_r", "_s", "_t", "_u", "_f", "_h", "_c",
      "_ch", "_sh", "_sch", "_hard", "_y", "_soft", "_eh", "_yu", "_ya">>

(* A local variable: the body F evaluated with the variable bound to x. *)
Bind(x, F(_)) == F(x)

(* str.lower() *)
LowerChar(c) ==
    Bind({i \in 1..Len(UpperCase) : UpperCase[i] = c},
         LAMBDA hit : IF hit = {} THEN c ELSE LowerCase[CHOOSE i \in hit : TRUE])

Lower(s) == [i \in 1..Len(s) |-> LowerChar(s[i])]

(* sub in s *)
Contains(s, sub) ==
    \E i \in 1..(Len(s) - Len(sub) + 1) : SubSeq(s, i, i + Len(sub) - 1) = sub

(* s.replace(c, '') for a single character c *)
Remove(s, c) == SelectSeq(s, LAMBDA x : x # c)

(* s.replace(c, d) for single characters c, d *)
ReplaceChar(s, c, d) == [i \in 1..Len(s) |-> IF s[i] = c THEN d ELSE s[i]]

RECURSIVE LStrip(_)
LStrip(s) == IF s # <<>> /\ Head(s) = " " THEN LStrip(Tail(s)) ELSE s

RECURSIVE RStrip(_)
RStrip(s) == IF s # <<>> /\ s[Len(s)] = " " THEN RStrip(SubSeq(s, 1, Len(s) - 1)) ELSE s

(* str.strip() *)
Strip(s) == RStrip(LStrip(s))

(* s.split(c)[0] *)
BeforeFirst(s, c) ==
    IF \E i \in 1..Len(s) : s[i] = c
    THEN SubSeq(s, 1, (CHOOSE i \in 1..Len(s) : s[i] = c /\ \A j \in 1..(i - 1) : s[j] # c) - 1)
    ELSE s

RECURSIVE NatToStr(_)
NatToStr(n) == IF n < 10 THEN <<Digits[n + 1]>> ELSE NatToStr(n \div 10) \o <<Digits[(n % 10) + 1]>>

(* str(n) for an int *)
IntToStr(n) == IF n < 0 THEN <<"-">> \o NatToStr(-n) ELSE NatToStr(n)

RECURSIVE DigitsToNat(_)
DigitsToNat(s) == IF s = <<>> THEN 0 ELSE DigitsToNat(SubSeq(s, 1, Len(s) - 1)) * 10 + DigitValue(s[Len(s)])

AllDigits(s) == \A i \in 1..Len(s) : IsDigit(s[i])

RECURSIVE Pow10(_)
Pow10(k) == IF k = 0 THEN 1 ELSE 10 * Pow10(k - 1)

-----------------------------------------------------------------------------
(* Floats: the decimal num / 10^e with no trailing zero in the fraction,    *)
(* or an infinity of sign inf.                                              *)

RECURSIVE Normalise(_, _)
Normalise(num, e) == IF e > 0 /\ num % 10 = 0 THEN Normalise(num \div 10, e - 1) ELSE PyFloat(num, e)

(* 2^53: the integers from here to 2^54 that a double holds are the even ones. *)
TwoTo53 == <<"9", "0", "0", "7", "1", "9", "9", "2", "5", "4", "7", "4", "0", "9", "9", "2">>

(* a < b for two digit sequences of one length *)
DigitsLess(a, b) ==
    \E i \in 1..Len(a) :
        /\ DigitValue(a[i]) < DigitValue(b[i])
        /\ \A j \in 1..(i - 1) : a[j] = b[j]

RECURSIVE Increment(_)
(* The digits of n + 1 from the digits of n. *)
Increment(digits) ==
    IF digits = <<>> THEN <<"1">>
    ELSE IF digits[Len(digits)] = "9"
    THEN Increment(SubSeq(digits, 1, Len(digits) - 1)) \o <<"0">>
    ELSE SubSeq(digits, 1, Len(digits) - 1) \o <<Digits[DigitValue(digits[Len(digits)]) + 2]>>

(* The digits of the double nearest to an integer of at most sixteen        *)
(* digits, ties to the even mantissa: an integer below 2^53 is its own      *)
(* double, an odd one from 2^53 on lies half way between two doubles and    *)
(* goes to the multiple of 4.                                               *)
NearestDouble(digits) ==
    IF Len(digits) < Len(TwoTo53) \/ DigitsLess(digits, TwoTo53) THEN digits
    ELSE Bind(DigitsToNat(SubSeq(digits, Len(digits) - 1, Len(digits))) % 4, LAMBDA r :
             IF r = 1
             THEN SubSeq(digits, 1, Len(digits) - 1)
                  \o <<Digits[DigitValue(digits[Len(digits)])]>>
             ELSE IF r = 3 THEN Increment(digits)
             ELSE digits)

(* float(s) for a str s: surrounding blanks are stripped, a sign is         *)
(* optional, then digits with at most one point and at least one digit, or  *)
(* "inf".  Anything else is a ValueError.  Exponents, "nan" and "_" do not  *)
(* occur in the strings of the model; an unsigned integer literal of ten to *)
(* sixteen digits is rounded to the nearest double.                         *)
ParseFloat(s) ==
    Bind(Strip(s), LAMBDA t :
        LET neg == t # <<>> /\ Head(t) = "-"
            body == IF t # <<>> /\ Head(t) \in {"-", "+"} THEN Tail(t) ELSE t
            points == {i \in 1..Len(body) : body[i] = "."}
            ip == IF points = {} THEN body ELSE SubSeq(body, 1, (CHOOSE i \in points : TRUE) - 1)
            fp == IF points = {} THEN <<>> ELSE SubSeq(body, (CHOOSE i \in points : TRUE) + 1, Len(body))
        IN  IF Lower(body) = <<"i", "n", "f">>
            THEN Return([t |-> "float", inf |-> IF neg THEN -1 ELSE 1])
            ELSE IF ~neg /\ Len(body) > 9 /\ AllDigits(body) /\ Head(body) # "0"
            THEN Return(PyBigFloat(NearestDouble(body)))
            ELSE IF Cardinality(points) <= 1 /\ AllDigits(ip \o fp) /\ Len(ip) + Len(fp) > 0
            THEN Return(Normalise((IF neg THEN -1 ELSE 1) * DigitsToNat(ip \o fp), Len(fp)))
            ELSE Raise("ValueError"))

(* a < b for floats: no comparison with nan holds *)
FloatLess(a, b) ==
    CASE IsNaN(a) \/ IsNaN(b) -> FALSE
      [] IsInf(a) /\ IsInf(b) -> a.inf < b.inf
      [] IsInf(a) -> a.inf < 0
      [] IsInf(b) -> b.inf > 0
      [] OTHER -> a.num * Pow10(b.e) < b.num * Pow10(a.e)

Abs(n) == IF n < 0 THEN -n ELSE n

PadZeros(s, width) == [i \in 1..(width - Len(s)) |-> "0"] \o s

(* repr(f) of a float in the range where Python prints no exponent *)
FloatRepr(f) ==
    IF IsInf(f) THEN (IF f.inf < 0 THEN <<"-">> ELSE <<>>) \o <<"i", "n", "f">>
    ELSE IF IsBig(f) THEN f.big \o <<".", "0">>
    ELSE (IF f.num < 0 THEN <<"-">> ELSE <<>>)
         \o NatToStr(Abs(f.num) \div Pow10(f.e)) \o <<".">>
         \o (IF f.e = 0 THEN <<"0">> ELSE PadZeros(NatToStr(Abs(f.num) % Pow10(f.e)), f.e))

(* The characters of the keys of nested mappings, for str(dict). *)
KeyChars ==
    [k \in {"pokupki", "purchases", "drugie_banki"} |->
        CASE k = "pokupki" -> <<"_p", "_o", "_k", "_u", "_p", "_k", "_i">>
          [] k = "purchases" -> <<"p", "u", "r", "c", "h", "a", "s", "e", "s">>
          [] k = "drugie_banki" -> <<"_d", "_r", "_u", "_g", "_i", "_e", "_", "_b", "_a", "_n", "_k", "_i">>]

RECURSIVE Str(_)
RECURSIVE Repr(_)
RECURSIVE JoinItems(_, _)
(* sep.join(items) *)
JoinItems(items, sep) ==
    IF items = <<>> THEN <<>>
    ELSE IF Len(items) = 1 THEN items[1]
    ELSE items[1] \o sep \o JoinItems(Tail(items), sep)

(* str(v) *)
Str(v) ==
    CASE v.t = "NoneType" -> <<"N", "o", "n", "e">>
      [] v.t = "bool" -> IF v.b THEN <<"T", "r", "u", "e">> ELSE <<"F", "a", "l", "s", "e">>
      [] v.t = "int" -> IF IsBig(v) THEN v.big ELSE IntToStr(v.n)
      [] v.t = "float" -> FloatRepr(v)
      [] v.t = "str" -> v.s
      [] v.t = "dict" ->
            <<"{">>
            \o JoinItems([i \in 1..Len(v.d) |->
                   <<"'">> \o KeyChars[v.d[i][1]] \o <<"'", ":", " ">> \o Repr(v.d[i][2])],
                   <<",", " ">>)
            \o <<"}">>

(* repr(v): a str is quoted (the strings of the model hold no quote) *)
Repr(v) == IF v.t = "str" THEN <<"'">> \o v.s \o <<"'">> ELSE Str(v)

-----------------------------------------------------------------------------
(* dict operations *)

DictKeys(d) == [i \in 1..Len(d) |-> d[i][1]]
DictValues(d) == [i \in 1..Len(d) |-> d[i][2]]
(* key in d *)
Has(d, k) == \E i \in 1..Len(d) : d[i][1] = k
(* d[key] *)
Item(d, k) == d[CHOOSE i \in 1..Len(d) : d[i][1] = k][2]
(* d.get(key, default) *)
Get(d, k, default) == IF Has(d, k) THEN Item(d, k) ELSE default

-----------------------------------------------------------------------------
(* modules/utils.py *)

(* normalize_rate(rate_str) for a str: None for an empty string or one that *)
(* float() rejects.                                                         *)
normalize_rate(rate_str) ==
    IF rate_str = <<>> THEN PyNone
    ELSE Bind(ParseFloat(Strip(Remove(rate_str, "%"))),
              LAMBDA r : IF r.ok THEN r.v ELSE PyNone)

IsNumberChar(c) == IsDigit(c) \/ c \in {",", "."}

(* extract_number(text): re.search(r'[\d,\.]+') finds the first maximal run *)
(* of digits, commas and points; float() of it may raise ValueError.        *)
extract_number(text) ==
    LET starts == {i \in 1..Len(text) : IsNumberChar(text[i])}
    IN  IF starts = {} THEN Return(PyNone)
        ELSE LET first == CHOOSE i \in starts : \A j \in starts : i <= j
                 last == CHOOSE i \in first..Len(text) :
                            /\ \A j \in first..i : IsNumberChar(text[j])
                            /\ (i = Len(text) \/ ~IsNumberChar(text[i + 1]))
             IN  ParseFloat(ReplaceChar(SubSeq(text, first, last), ",", "."))

-----------------------------------------------------------------------------
(* modules/normalizer.py: formatting methods *)

(* int(v): a float is truncated (an infinity is an OverflowError), a str    *)
(* must be an integer literal, a mapping or None is a TypeError.            *)
IntOf(v) ==
    CASE v.t = "int" -> Return(v)
      [] v.t = "bool" -> Return(PyInt(IF v.b THEN 1 ELSE 0))
      [] v.t = "float" ->
            IF IsInf(v) THEN Raise("OverflowError")
            ELSE IF IsBig(v) THEN Return(PyBigInt(v.big))
            ELSE Return(PyInt((IF v.num < 0 THEN -1 ELSE 1) * (Abs(v.num) \div Pow10(v.e))))
      [] v.t = "str" ->
            Bind(Strip(v.s), LAMBDA t :
                LET neg == t # <<>> /\ Head(t) = "-"
                    body == IF t # <<>> /\ Head(t) \in {"-", "+"} THEN Tail(t) ELSE t
                IN  IF body # <<>> /\ AllDigits(body)
                    THEN Return(PyInt((IF neg THEN -1 ELSE 1) * DigitsToNat(body)))
                    ELSE Raise("ValueError"))
      [] OTHER -> Raise("TypeError")

(* int(extract_number(value_str) or value) *)
NumberOrValue(value_str, value) ==
    Bind(extract_number(value_str), LAMBDA x :
        IF ~x.ok THEN x ELSE IntOf(IF Truthy(x.v) THEN x.v ELSE value))

RECURSIVE GroupNat(_)
GroupNat(n) ==
    IF n < 1000 THEN NatToStr(n)
    ELSE GroupNat(n \div 1000) \o <<",">> \o PadZeros(NatToStr(n % 1000), 3)

RECURSIVE GroupDigits(_)
GroupDigits(digits) ==
    IF Len(digits) <= 3 THEN digits
    ELSE GroupDigits(SubSeq(digits, 1, Len(digits) - 3)) \o <<",">>
         \o SubSeq(digits, Len(digits) - 2, Len(digits))

(* f"{n:,}" *)
Grouped(n) ==
    IF IsBig(n) THEN GroupDigits(n.big)
    ELSE IF n.n < 0 THEN <<"-">> \o GroupNat(-n.n) ELSE GroupNat(n.n)

Do == <<"_d", "_o">>
UpTo == <<"u", "p", " ", "t", "o">>
Net == <<"_N", "_e", "_t">>
Da == <<"_D", "_a">>
Dnej == <<"_d", "_n", "_e", "_j">>
Besplatno == <<"_b", "_e", "_s", "_p", "_l", "_a", "_t", "_n", "_o">>
Free == <<"f", "r", "e", "e">>

(* _format_rate without the branch for ranges. *)
FormatRateNoRangeBranch(value) ==
    IF IsNone(value) \/ value = PyStr(Net) THEN Return(PyStr(ND))
    ELSE Bind(Str(value), LAMBDA value_str :
             IF Bind(Lower(value_str), LAMBDA low : Contains(low, Do) \/ Contains(low, UpTo))
             THEN Return(PyStr(value_str))
             ELSE Bind(normalize_rate(value_str), LAMBDA rate :
                 IF ~IsNone(rate) THEN Return(PyStr(FloatRepr(rate) \o <<"%">>))
                 ELSE Return(PyStr(value_str))))

_format_rate(value) ==
    IF IsNone(value) \/ value = PyStr(Net) THEN Return(PyStr(ND))
    ELSE Bind(Str(value), LAMBDA value_str :
             IF Contains(value_str, <<"-">>) THEN Return(PyStr(Remove(value_str, " ")))
             ELSE IF Bind(Lower(value_str), LAMBDA low : Contains(low, Do) \/ Contains(low, UpTo))
             THEN Return(PyStr(value_str))
             ELSE Bind(normalize_rate(value_str), LAMBDA rate :
                 IF ~IsNone(rate) THEN Return(PyStr(FloatRepr(rate) \o <<"%">>))
                 ELSE Return(PyStr(value_str))))

_format_period(value) ==
    IF IsNone(value) \/ value = PyStr(ND) THEN Return(PyStr(ND))
    ELSE Bind(Str(value), LAMBDA value_str :
             IF Bind(Lower(value_str), LAMBDA low :
                    Contains(low, <<"_d", "_n">>) \/ Contains(low, <<"d", "a", "y">>))
             THEN Return(PyStr(value_str))
             ELSE Bind(NumberOrValue(value_str, value), LAMBDA days :
                 IF days.ok THEN Return(PyStr(IntToStr(days.v.n) \o <<" ">> \o Dnej))
                 ELSE IF days.exc \in {"ValueError", "TypeError"} THEN Return(PyStr(value_str))
                 ELSE days))

(* round(x) of the decimal num * 100 / 10^e, ties to even: f"{value * 100:.0f}" *)
RoundPercent(f) ==
    LET scaled == f.num * 100
        unit == Pow10(f.e)
        q == scaled \div unit
        r == scaled % unit
    IN  IF 2 * r > unit \/ (2 * r = unit /\ q % 2 = 1) THEN q + 1 ELSE q

_format_cashback(value) ==
    IF IsNone(value) THEN Return(PyStr(ND))
    ELSE IF IsStr(value) THEN Return(value)
    ELSE IF value.t = "float"
    THEN Return(PyStr(Do \o <<" ">>
                      \o (IF IsInf(value) THEN FloatRepr(value) ELSE IntToStr(RoundPercent(value)))
                      \o <<"%">>))
    ELSE Return(PyStr(Str(value)))

(* _format_fee with the currency sign appended to every text that lacks it. *)
FormatFeeAlwaysSuffixed(value) ==
    IF IsNone(value) THEN Return(PyStr(ND))
    ELSE Bind(Str(value), LAMBDA text :
             IF EqualsZero(value) THEN Return(PyStr(<<"0", RUB>>))
             ELSE IF Contains(text, <<RUB>>) THEN Return(PyStr(text))
             ELSE Return(PyStr(text \o <<RUB>>)))

_format_fee(value) ==
    IF IsNone(value) THEN Return(PyStr(ND))
    ELSE Bind(Str(value), LAMBDA text :
             IF EqualsZero(value)
                \/ Bind(Lower(text), LAMBDA value_str :
                        Contains(value_str, Besplatno) \/ Contains(value_str, Free))
             THEN Return(PyStr(<<"0", RUB>>))
             ELSE IF Contains(text, <<RUB>>) THEN Return(PyStr(text))
             ELSE IF value.t \in {"int", "float", "bool"} THEN Return(PyStr(text \o <<RUB>>))
             ELSE Return(PyStr(text)))

_format_amount(value) ==
    IF IsNone(value) THEN Return(PyStr(ND))
    ELSE Bind(Str(value), LAMBDA value_str :
             IF Contains(value_str, <<RUB>>) \/ Contains(value_str, <<"_D", "_o">>)
                \/ Contains(Lower(value_str), Do)
             THEN Return(PyStr(value_str))
             ELSE IF Contains(value_str, <<"-">>) /\ Head(value_str) # "-"
             THEN Return(PyStr(Remove(value_str, " ")))
             ELSE Bind(NumberOrValue(value_str, value), LAMBDA amount :
                 IF amount.ok
                 THEN Return(PyStr(ReplaceChar(Grouped(amount.v) \o <<RUB>>, ",", " ")))
                 ELSE IF amount.exc \in {"ValueError", "TypeError"} THEN Return(PyStr(value_str))
                 ELSE amount))

_format_bool(value) ==
    IF value.t = "bool" THEN Return(PyStr(IF value.b THEN Da ELSE Net))
    ELSE IF IsStr(value) /\ Lower(value.s) \in
               {<<"t", "r", "u", "e">>, <<"_d", "_a">>, <<"y", "e", "s">>,
                <<"_v", "_k", "_l", "_yu", "_ch", "_e", "_n", "_y">>}
    THEN Return(PyStr(Da))
    ELSE IF IsStr(value) /\ Lower(value.s) \in
               {<<"f", "a", "l", "s", "e">>, <<"_n", "_e", "_t">>, <<"n", "o">>}
    THEN Return(PyStr(Net))
    ELSE Return(PyStr(ND))

-----------------------------------------------------------------------------
(* modules/normalizer.py: field extraction methods.                         *)
(* Field names: nazvanie название, karta карта, stavka ставка, procent       *)
(* процент, procent_na_ostatok процент_на_остаток, grejs_period              *)
(* грейс_период, keshbek кешбек, stoimost стоимость, stoimost_obsluzhivaniya  *)
(* стоимость_обслуживания, limit лимит, kreditnyj_limit кредитный_лимит,      *)
(* maksimalnyj_limit максимальный_лимит, minimalnyj_platezh                  *)
(* минимальный_платеж, min_zarplata мин_зарплата, komissiya комиссия,         *)
(* programma_loyalnosti программа_лояльности, sms смс, snyatie_nalichnyh      *)
(* снятие_наличных, perevody переводы, limit_mesyachnyj лимит_месячный,       *)
(* srok срок, minimalnaya_summa минимальная_сумма, maksimalnaya_summa         *)
(* максимальная_сумма, popolnenie пополнение, dosrochnoe_snyatie              *)
(* досрочное_снятие, strahovanie страхование, vremya_odobreniya               *)
(* время_одобрения, min_skor мин_скор, pokupki покупки.                       *)

(* The value under the first alias that is a key of data, or None. *)
_get_field_value(data, field_aliases) ==
    IF \E i \in 1..Len(field_aliases) : Has(data, field_aliases[i])
    THEN Item(data, field_aliases[CHOOSE i \in 1..Len(field_aliases) :
                       /\ Has(data, field_aliases[i])
                       /\ \A j \in 1..(i - 1) : ~Has(data, field_aliases[j])])
    ELSE PyNone

(* The alias list each extraction method hands to _get_field_value. *)
FieldAliases(method) ==
    CASE method = "_get_product_name" -> <<"nazvanie", "karta", "product_name">>
      [] method = "_get_interest_rate" -> <<"stavka", "procent", "procent_na_ostatok", "interest_rate">>
      [] method = "_get_grace_period" -> <<"grejs_period", "grace_period">>
      [] method = "_get_cashback" -> <<"keshbek", "cashback">>
      [] method = "_get_annual_fee" -> <<"stoimost", "stoimost_obsluzhivaniya", "annual_fee">>
      [] method = "_get_max_limit" -> <<"limit", "kreditnyj_limit", "maksimalnyj_limit", "max_limit">>
      [] method = "_get_min_payment" -> <<"minimalnyj_platezh", "min_payment">>
      [] method = "_get_withdrawals" -> <<"snyatie_nalichnyh", "withdrawals">>
      [] method = "_get_transfers" -> <<"perevody", "transfers">>

_get_product_name(data) ==
    Bind(_get_field_value(data, FieldAliases("_get_product_name")), LAMBDA name :
        Return(IF Truthy(name) THEN PyStr(Str(name)) ELSE PyStr(ND)))

_get_interest_rate(data) ==
    _format_rate(_get_field_value(data, FieldAliases("_get_interest_rate")))

_get_grace_period(data) ==
    Bind(_get_field_value(data, FieldAliases("_get_grace_period")), LAMBDA grace :
        IF IsDict(grace)
        THEN _format_period(Get(grace.d, "pokupki", Get(grace.d, "purchases", PyStr(ND))))
        ELSE _format_period(grace))

_get_cashback(data) ==
    _format_cashback(_get_field_value(data, FieldAliases("_get_cashback")))

_get_annual_fee(data) ==
    _format_fee(_get_field_value(data, FieldAliases("_get_annual_fee")))

_get_max_limit(data) ==
    _format_amount(_get_field_value(data, FieldAliases("_get_max_limit")))

_get_min_payment(data) ==
    Bind(_get_field_value(data, FieldAliases("_get_min_payment")), LAMBDA min_pay :
        Return(IF Truthy(min_pay) THEN PyStr(Str(min_pay)) ELSE PyStr(ND)))

(* "; ".join(f"{k}: {v}" for k, v in mapping.items()) *)
JoinMapping(d) ==
    JoinItems([i \in 1..Len(d) |-> KeyChars[d[i][1]] \o <<":", " ">> \o Str(d[i][2])], <<";", " ">>)

_get_withdrawals(data) ==
    Bind(_get_field_value(data, FieldAliases("_get_withdrawals")), LAMBDA withdrawals :
        Return(IF IsDict(withdrawals) THEN PyStr(JoinMapping(withdrawals.d))
               ELSE IF Truthy(withdrawals) THEN PyStr(Str(withdrawals)) ELSE PyStr(ND)))

_get_transfers(data) ==
    Bind(_get_field_value(data, FieldAliases("_get_transfers")), LAMBDA transfers :
        Return(IF IsDict(transfers) THEN PyStr(JoinMapping(transfers.d))
               ELSE IF Truthy(transfers) THEN PyStr(Str(transfers)) ELSE PyStr(ND)))

(* lambda d: d.get(key, "Н/Д") *)
Lambda(key) == [f |-> "lambda", key |-> key]
Method(name) == [f |-> name]

(* extractor(raw_data) *)
CallExtractor(extractor, data) ==
    CASE extractor.f = "lambda" -> Return(Get(data, extractor.key, PyStr(ND)))
      [] extractor.f = "_get_product_name" -> _get_product_name(data)
      [] extractor.f = "_get_interest_rate" -> _get_interest_rate(data)
      [] extractor.f = "_get_grace_period" -> _get_grace_period(data)
      [] extractor.f = "_get_cashback" -> _get_cashback(data)
      [] extractor.f = "_get_annual_fee" -> _get_annual_fee(data)
      [] extractor.f = "_get_max_limit" -> _get_max_limit(data)
      [] extractor.f = "_get_min_payment" -> _get_min_payment(data)
      [] extractor.f = "_get_withdrawals" -> _get_withdrawals(data)
      [] extractor.f = "_get_transfers" -> _get_transfers(data)

(* The loop body without its except branch: the exception leaves the loop. *)
ExtractFieldUncaught(extractor, raw_data) ==
    Bind(CallExtractor(extractor, raw_data), LAMBDA r :
        IF r.ok THEN Return(IF IsNone(r.v) THEN PyStr(ND) ELSE r.v) ELSE r)

(* The value stored for one field: the extractor's value, the sentinel for  *)
(* None, and the sentinel when the extractor raises (the except branch).    *)
ExtractField(extractor, raw_data) ==
    Bind(CallExtractor(extractor, raw_data), LAMBDA r :
        IF r.ok THEN Return(IF IsNone(r.v) THEN PyStr(ND) ELSE r.v)
        ELSE Return(PyStr(ND)))

_normalize_with_mapping(raw_data, bank, product_type, field_extractors) ==
    Bind([i \in 1..Len(field_extractors) |-> ExtractField(field_extractors[i][2], raw_data)],
         LAMBDA fields :
        IF \E i \in 1..Len(fields) : ~fields[i].ok
        THEN fields[CHOOSE i \in 1..Len(fields) : ~fields[i].ok /\ \A j \in 1..(i - 1) : fields[j].ok]
        ELSE Return(PyDict(<<<<"bank", bank>>>>
                           \o [i \in 1..Len(fields) |-> <<field_extractors[i][1], fields[i].v>>])))

CreditCardExtractors ==
    << <<"product_name", Method("_get_product_name")>>,
       <<"interest_rate", Method("_get_interest_rate")>>,
       <<"grace_period", Method("_get_grace_period")>>,
       <<"cashback", Method("_get_cashback")>>,
       <<"annual_fee", Method("_get_annual_fee")>>,
       <<"max_limit", Method("_get_max_limit")>>,
       <<"min_payment", Method("_get_min_payment")>>,
       <<"min_salary_requirement", Lambda("min_zarplata")>>,
       <<"commission", Lambda("komissiya")>> >>

DebitCardExtractors ==
    << <<"product_name", Method("_get_product_name")>>,
       <<"annual_fee", Method("_get_annual_fee")>>,
       <<"interest_on_balance", Method("_get_interest_rate")>>,
       <<"cashback", Method("_get_cashback")>>,
       <<"loyalty_program", Lambda("programma_loyalnosti")>>,
       <<"sms_notifications", Lambda("sms")>>,
       <<"withdrawals", Method("_get_withdrawals")>>,
       <<"transfers", Method("_get_transfers")>>,
       <<"monthly_limit", Lambda("limit_mesyachnyj")>> >>

DepositExtractors ==
    << <<"product_name", Method("_get_product_name")>>,
       <<"interest_rate", Method("_get_interest_rate")>>,
       <<"term_months", Lambda("srok")>>,
       <<"min_amount", Lambda("minimalnaya_summa")>>,
       <<"max_amount", Lambda("maksimalnaya_summa")>>,
       <<"replenishment", Lambda("popolnenie")>>,
       <<"early_withdrawal", Lambda("dosrochnoe_snyatie")>>,
       <<"insurance", Lambda("strahovanie")>> >>

ConsumerLoanExtractors ==
    << <<"product_name", Method("_get_product_name")>>,
       <<"interest_rate", Method("_get_interest_rate")>>,
       <<"max_amount", Method("_get_max_limit")>>,
       <<"term_months", Lambda("srok")>>,
       <<"commission", Lambda("komissiya")>>,
       <<"approval_time", Lambda("vremya_odobreniya")>>,
       <<"min_score", Lambda("min_skor")>> >>

(* The field_extractors mapping of normalize_<product_type>. *)
FieldExtractors(product_type) ==
    CASE product_type = "credit_card" -> CreditCardExtractors
      [] product_type = "debit_card" -> DebitCardExtractors
      [] product_type = "deposit" -> DepositExtractors
      [] product_type = "consumer_loan" -> ConsumerLoanExtractors

normalize_credit_card(raw_data, bank) ==
    _normalize_with_mapping(raw_data, bank, "credit_card", CreditCardExtractors)

normalize_debit_card(raw_data, bank) ==
    _normalize_with_mapping(raw_data, bank, "debit_card", DebitCardExtractors)

normalize_deposit(raw_data, bank) ==
    _normalize_with_mapping(raw_data, bank, "deposit", DepositExtractors)

normalize_consumer_loan(raw_data, bank) ==
    _normalize_with_mapping(raw_data, bank, "consumer_loan", ConsumerLoanExtractors)

ProductTypes == {"credit_card", "debit_card", "deposit", "consumer_loan"}

(* The normalize_<product_type> method of DataNormalizer. *)
Normalize(product_type, raw_data, bank) ==
    CASE product_type = "credit_card" -> normalize_credit_card(raw_data, bank)
      [] product_type = "debit_card" -> normalize_debit_card(raw_data, bank)
      [] product_type = "deposit" -> normalize_deposit(raw_data, bank)
      [] product_type = "consumer_loan" -> normalize_consumer_loan(raw_data, bank)

-----------------------------------------------------------------------------
(* configs/schemas.py *)

CREDIT_CARD_SCHEMA ==
    <<"bank", "product_name", "interest_rate", "grace_period", "cashback", "annual_fee",
      "min_salary_requirement", "max_limit", "commission">>

DEPOSIT_SCHEMA ==
    <<"bank", "product_name", "interest_rate", "term_months", "min_amount", "max_amount",
      "replenishment", "early_withdrawal", "insurance">>

CONSUMER_LOAN_SCHEMA ==
    <<"bank", "product_name", "interest_rate", "max_amount", "term_months", "commission",
      "approval_time", "min_score">>

(* The "fields" list of SCHEMAS.get(product_type, CREDIT_CARD_SCHEMA). *)
get_schema(product_type) ==
    CASE product_type = "credit_card" -> CREDIT_CARD_SCHEMA
      [] product_type = "deposit" -> DEPOSIT_SCHEMA
      [] product_type = "consumer_loan" -> CONSUMER_LOAN_SCHEMA
      [] OTHER -> CREDIT_CARD_SCHEMA

Range(seq) == {seq[i] : i \in 1..Len(seq)}

-----------------------------------------------------------------------------
(* configs/field_mappings.py: source field name -> normalized field name,   *)
(* each mapping in its insertion order.                                     *)

CREDIT_CARD_FIELD_MAPPING ==
    << <<"nazvanie", "product_name">>, <<"stavka", "interest_rate">>,
       <<"grejs_period", "grace_period">>, <<"keshbek", "cashback">>,
       <<"stoimost", "annual_fee">>, <<"limit", "max_limit">>,
       <<"minimalnyj_platezh", "min_payment">>, <<"karta", "product_name">>,
       <<"kreditnyj_limit", "max_limit">>, <<"stoimost_obsluzhivaniya", "annual_fee">>,
       <<"pervonachalnyj_vznos", "initial_payment">> >>

DEBIT_CARD_FIELD_MAPPING ==
    << <<"nazvanie", "product_name">>, <<"stoimost", "annual_fee">>,
       <<"sms", "sms_notifications">>, <<"snyatie_nalichnyh", "cash_withdrawal">>,
       <<"perevody", "transfers">>, <<"procent", "interest_rate">>,
       <<"keshbek", "cashback">>, <<"programma_loyalnosti", "loyalty_program">>,
       <<"vozrast", "age_requirement">>, <<"bonusy", "bonuses">>,
       <<"karta", "product_name">>, <<"stoimost_obsluzhivaniya", "annual_fee">>,
       <<"sms_uvedomleniya", "sms_notifications">>,
       <<"snyatie_nalichnyh_chuzhie_banki", "cash_withdrawal_other_banks">>,
       <<"perevody_po_rekvizitam", "transfers_by_details">>,
       <<"procent_na_ostatok", "interest_on_balance">> >>

DEPOSIT_FIELD_MAPPING ==
    << <<"nazvanie", "product_name">>, <<"stavka", "interest_rate">>,
       <<"srok", "term_months">>, <<"minimalnaya_summa", "min_amount">>,
       <<"maksimalnaya_summa", "max_amount">>, <<"popolnenie", "replenishment">>,
       <<"dosrochnoe_snyatie", "early_withdrawal">>, <<"strahovanie", "insurance">> >>

CONSUMER_LOAN_FIELD_MAPPING ==
    << <<"nazvanie", "product_name">>, <<"stavka", "interest_rate">>,
       <<"summa", "max_amount">>, <<"limit", "max_amount">>, <<"srok", "term_months">>,
       <<"komissiya", "commission">>, <<"vremya_odobreniya", "approval_time">> >>

(* The keys of NESTED_FIELD_HANDLERS. *)
NESTED_FIELD_HANDLERS == {"snyatie_nalichnyh", "perevody", "grejs_period"}

PRODUCT_TYPE_MAPPINGS ==
    <<CREDIT_CARD_FIELD_MAPPING, DEBIT_CARD_FIELD_MAPPING, DEPOSIT_FIELD_MAPPING,
      CONSUMER_LOAN_FIELD_MAPPING>>

(* FIELD_ALIASES.get(normalized_field, []) *)
FIELD_ALIASES(normalized_field) ==
    CASE normalized_field = "interest_rate" ->
             <<"stavka", "procentnaya_stavka", "procent_na_ostatok">>
      [] normalized_field = "annual_fee" ->
             <<"stoimost", "stoimost_obsluzhivaniya", "godovoe_obsluzhivanie">>
      [] normalized_field = "product_name" -> <<"nazvanie", "karta", "nazvanie_produkta">>
      [] normalized_field = "max_limit" -> <<"limit", "kreditnyj_limit", "maksimalnyj_limit">>
      [] normalized_field = "grace_period" -> <<"grejs_period", "lgotnyj_period">>
      [] normalized_field = "cashback" -> <<"keshbek", "kehshbehk">>
      [] OTHER -> <<>>

(* PRODUCT_TYPE_MAPPINGS.get(product_type, {}) *)
get_mapping_for_product(product_type) ==
    CASE product_type = "credit_card" -> CREDIT_CARD_FIELD_MAPPING
      [] product_type = "debit_card" -> DEBIT_CARD_FIELD_MAPPING
      [] product_type = "deposit" -> DEPOSIT_FIELD_MAPPING
      [] product_type = "consumer_loan" -> CONSUMER_LOAN_FIELD_MAPPING
      [] OTHER -> <<>>

(* The source names a mapping gives a normalized field. *)
SourcesOf(mapping, normalized_field) ==
    {mapping[i][1] : i \in {j \in 1..Len(mapping) : mapping[j][2] = normalized_field}}

(* get_all_possible_field_names(normalized_field): the names of list(set),  *)
(* as a set; the order of the list depends on the hash seed of the process. *)
get_all_possible_field_names(normalized_field) ==
    Range(FIELD_ALIASES(normalized_field))
    \cup UNION {SourcesOf(PRODUCT_TYPE_MAPPINGS[m], normalized_field) :
                   m \in 1..Len(PRODUCT_TYPE_MAPPINGS)}

-----------------------------------------------------------------------------
(* modules/comparator.py *)

(* _extract_rate(rate_str): the number of a rate string (the first bound of *)
(* a range), or None.                                                       *)
_extract_rate(rate_str) ==
    IF ~Truthy(rate_str) \/ rate_str = PyStr(ND) THEN PyNone
    ELSE Bind(Str(rate_str), LAMBDA text :
             Bind(ParseFloat(Strip(Remove(Remove(
                      IF Contains(text, <<"-">>) THEN BeforeFirst(text, "-") ELSE text,
                      "%"), RUB))),
                  LAMBDA r : IF r.ok THEN r.v ELSE PyNone))

(* a - b for floats, computed on the decimals where both are finite: the    *)
(* difference of two infinities of one sign is nan.  The rates of the model *)
(* have at most one fractional digit.                                       *)
FloatSub(a, b) ==
    CASE IsNaN(a) \/ IsNaN(b) -> PyNaN
      [] IsInf(a) /\ IsInf(b) -> IF a.inf = b.inf THEN PyNaN ELSE a
      [] IsInf(a) -> a
      [] IsInf(b) -> [t |-> "float", inf |-> -b.inf]
      [] OTHER -> LET e == IF a.e > b.e THEN a.e ELSE b.e
                  IN  Normalise(a.num * Pow10(e - a.e) - b.num * Pow10(e - b.e), e)

FloatNeg(a) ==
    CASE IsNaN(a) -> PyNaN
      [] IsInf(a) -> [t |-> "float", inf |-> -a.inf]
      [] OTHER -> PyFloat(-a.num, a.e)

FloatAbs(a) ==
    CASE IsNaN(a) -> PyNaN
      [] IsInf(a) -> PyInf
      [] OTHER -> PyFloat(Abs(a.num), a.e)

(* f"{x:.1f}" *)
Fixed1(x) ==
    IF IsNaN(x) THEN <<"n", "a", "n">>
    ELSE IF IsInf(x) THEN (IF x.inf < 0 THEN <<"-">> ELSE <<>>) \o <<"i", "n", "f">>
    ELSE
    LET scaled == Abs(x.num) * 10
        unit == Pow10(x.e)
        q == scaled \div unit
        r == scaled % unit
        tenths == IF 2 * r > unit \/ (2 * r = unit /\ q % 2 = 1) THEN q + 1 ELSE q
    IN  (IF x.num < 0 THEN <<"-">> ELSE <<>>)
        \o NatToStr(tenths \div 10) \o <<".">> \o NatToStr(tenths % 10)

RatesIdenticalMsg == <<"<Procentnye stavki prakticheski identichny>">>
SberWinsMsg == <<"<Sber vyigryvaet po stavke na >">>
CompetitorWinsMsg == <<"<Konkurent vyigryvaet po stavke na >">>
SberHigherMsg == <<"<Sber predlagaet vyshe stavku na >">>
LowerRateMsg == <<"<Bolee nizkaya procentnaya stavka: >">>
HigherRateMsg == <<"<Bolee vysokaya procentnaya stavka: >">>
LowerFeeMsg == <<"<Bolee nizkaya stoimost obsluzhivaniya: >">>
NoAdvantages == <<"<Preimuschestva ne najdeny>">>
SberBetter == <<"<Sber imeet bolee konkurentnoe predlozhenie>">>
CompetitorBetter == <<"<Konkurent imeet luchshie usloviya - rekomenduetsya peresmotret>">>
Comparable == <<"<Usloviya primerno sopostavimy>">>

Tenth == PyFloat(1, 1)
Half == PyFloat(5, 1)
Zero == PyFloat(0, 0)

(* f"{x:.1f}%" after a message *)
Insight(message, x) == <<message \o Fixed1(x) \o <<"%">> >>

(* The credit card branch of _generate_insights. *)
CreditCardInsights(sber_rate, comp_rate) ==
    Bind(FloatSub(comp_rate, sber_rate), LAMBDA diff :
        IF FloatLess(FloatAbs(diff), Tenth) THEN <<RatesIdenticalMsg>>
        ELSE Insight(IF FloatLess(Zero, diff) THEN SberWinsMsg ELSE CompetitorWinsMsg,
                     FloatAbs(diff)))

(* The deposit branch of _generate_insights. *)
DepositInsights(sber_rate, comp_rate) ==
    Bind(FloatSub(sber_rate, comp_rate), LAMBDA diff :
        IF FloatLess(Zero, diff) THEN Insight(SberHigherMsg, diff)
        ELSE IF FloatLess(diff, FloatNeg(Half)) THEN Insight(CompetitorWinsMsg, FloatAbs(diff))
        ELSE <<>>)

_generate_insights(sber, competitor, product_type) ==
    Bind(_extract_rate(Get(sber, "interest_rate", PyNone)), LAMBDA sber_rate :
    Bind(_extract_rate(Get(competitor, "interest_rate", PyNone)), LAMBDA comp_rate :
        IF product_type = "credit_card" /\ Truthy(sber_rate) /\ Truthy(comp_rate)
        THEN CreditCardInsights(sber_rate, comp_rate)
        ELSE IF product_type = "deposit" /\ Truthy(sber_rate) /\ Truthy(comp_rate)
        THEN DepositInsights(sber_rate, comp_rate)
        ELSE <<>>))

(* The entry, if any, the interest rate comparison appends. *)
RateAdvantage(first, second, product_type) ==
    Bind(_extract_rate(Get(first, "interest_rate", PyNone)), LAMBDA rate1 :
    Bind(_extract_rate(Get(second, "interest_rate", PyNone)), LAMBDA rate2 :
        IF IsNone(rate1) \/ IsNone(rate2) THEN <<>>
        ELSE IF product_type = "credit_card" /\ FloatLess(rate1, rate2)
        THEN <<LowerRateMsg \o Str(Get(first, "interest_rate", PyNone))>>
        ELSE IF product_type = "deposit" /\ FloatLess(rate2, rate1)
        THEN <<HigherRateMsg \o Str(Get(first, "interest_rate", PyNone))>>
        ELSE <<>>))

(* FeeAdvantage with the comparison reversed: the higher fee wins. *)
FeeAdvantageHigherWins(first, second) ==
    Bind(ParseFloat(Remove(Str(Get(first, "annual_fee", PyStr(ND))), RUB)), LAMBDA fee1 :
    Bind(ParseFloat(Remove(Str(Get(second, "annual_fee", PyStr(ND))), RUB)), LAMBDA fee2 :
        IF fee1.ok /\ fee2.ok /\ FloatLess(fee2.v, fee1.v)
        THEN <<LowerFeeMsg \o Str(Get(first, "annual_fee", PyNone))>>
        ELSE <<>>))

(* The entry, if any, the annual fee comparison appends: float() of either  *)
(* fee raising ValueError skips the comparison.                             *)
FeeAdvantage(first, second) ==
    Bind(ParseFloat(Remove(Str(Get(first, "annual_fee", PyStr(ND))), RUB)), LAMBDA fee1 :
    Bind(ParseFloat(Remove(Str(Get(second, "annual_fee", PyStr(ND))), RUB)), LAMBDA fee2 :
        IF fee1.ok /\ fee2.ok /\ FloatLess(fee1.v, fee2.v)
        THEN <<LowerFeeMsg \o Str(Get(first, "annual_fee", PyNone))>>
        ELSE <<>>))

(* _find_advantages returning the list as collected, without the placeholder. *)
FindAdvantagesNoPlaceholder(first, second, product_type) ==
    RateAdvantage(first, second, product_type) \o FeeAdvantage(first, second)

_find_advantages(first, second, product_type) ==
    Bind(RateAdvantage(first, second, product_type) \o FeeAdvantage(first, second),
         LAMBDA advantages : IF advantages # <<>> THEN advantages ELSE <<NoAdvantages>>)

(* _get_recommendation comparing the numbers of real advantages, the       *)
(* placeholder not counted.                                                 *)
RecommendationCountsWins(sber_advantages, competitor_advantages) ==
    Bind(Len(SelectSeq(sber_advantages, LAMBDA entry : entry # NoAdvantages)), LAMBDA sber_wins :
    Bind(Len(SelectSeq(competitor_advantages, LAMBDA entry : entry # NoAdvantages)),
         LAMBDA competitor_wins :
             IF sber_wins > competitor_wins THEN SberBetter
             ELSE IF competitor_wins > sber_wins THEN CompetitorBetter
             ELSE Comparable))

(* _get_recommendation with >= in its first comparison. *)
RecommendationTiesToSber(sber_advantages, competitor_advantages) ==
    IF Len(sber_advantages) >= Len(competitor_advantages) THEN SberBetter
    ELSE IF Len(competitor_advantages) > Len(sber_advantages) THEN CompetitorBetter
    ELSE Comparable

_get_recommendation(sber_advantages, competitor_advantages) ==
    IF Len(sber_advantages) > Len(competitor_advantages) THEN SberBetter
    ELSE IF Len(competitor_advantages) > Len(sber_advantages) THEN CompetitorBetter
    ELSE Comparable

(* A table with a row for every key of either record. *)
ComparisonTableAllKeys(sber_data, competitor_data) ==
    [i \in 1..Len(sber_data) |->
        [Parametr |-> sber_data[i][1],
         Sber |-> sber_data[i][2],
         Konkurent |-> Get(competitor_data, sber_data[i][1], PyStr(ND))]]
    \o [i \in 1..Len(SelectSeq(competitor_data, LAMBDA item : ~Has(sber_data, item[1]))) |->
        [Parametr |-> SelectSeq(competitor_data, LAMBDA item : ~Has(sber_data, item[1]))[i][1],
         Sber |-> PyStr(ND),
         Konkurent |-> SelectSeq(competitor_data, LAMBDA item : ~Has(sber_data, item[1]))[i][2]]]

(* The DataFrame of compare_products: one row per key of sber_data. *)
ComparisonTable(sber_data, competitor_data) ==
    [i \in 1..Len(sber_data) |->
        [Parametr |-> sber_data[i][1],
         Sber |-> sber_data[i][2],
         Konkurent |-> Get(competitor_data, sber_data[i][1], PyStr(ND))]]

(* compare_products with both advantage lists computed from the reference side. *)
CompareProductsUnswapped(sber_data, competitor_data, product_type) ==
    Bind(_find_advantages(sber_data, competitor_data, product_type), LAMBDA sber_advantages :
        [comparison_table |-> ComparisonTable(sber_data, competitor_data),
         insights |-> _generate_insights(sber_data, competitor_data, product_type),
         sber_advantages |-> sber_advantages,
         competitor_advantages |-> sber_advantages,
         recommendation |-> _get_recommendation(sber_advantages, sber_advantages)])

compare_products(sber_data, competitor_data, product_type) ==
    Bind(_find_advantages(sber_data, competitor_data, product_type), LAMBDA sber_advantages :
    Bind(_find_advantages(competitor_data, sber_data, product_type), LAMBDA competitor_advantages :
        [comparison_table |-> ComparisonTable(sber_data, competitor_data),
         insights |-> _generate_insights(sber_data, competitor_data, product_type),
         sber_advantages |-> sber_advantages,
         competitor_advantages |-> competitor_advantages,
         recommendation |-> _get_recommendation(sber_advantages, competitor_advantages)]))

-----------------------------------------------------------------------------
(* modules/validator.py *)

StartsWith(s, prefix) ==
    Len(s) >= Len(prefix) /\ SubSeq(s, 1, Len(prefix)) = prefix

RECURSIVE Split(_, _)
(* s.split(c) for a one-character separator *)
Split(s, c) ==
    IF \E i \in 1..Len(s) : s[i] = c
    THEN <<BeforeFirst(s, c)>> \o Split(SubSeq(s, Len(BeforeFirst(s, c)) + 2, Len(s)), c)
    ELSE <<s>>

RECURSIVE RemoveSub(_, _)
(* s.replace(sub, '') for a non-empty sub *)
RemoveSub(s, sub) ==
    IF Len(s) < Len(sub) THEN s
    ELSE IF StartsWith(s, sub) THEN RemoveSub(SubSeq(s, Len(sub) + 1, Len(s)), sub)
    ELSE <<Head(s)>> \o RemoveSub(Tail(s), sub)

(* An issue string, by its parts: the kind of issue, the field or value it  *)
(* cites, the bank it names and the bank label validate_comparison_data     *)
(* puts before it.  The alias names a missing-field issue lists are taken   *)
(* from a list whose order is not fixed and are left out.                   *)
Issue(kind, field, value, bank) ==
    [issue |-> kind, field |-> field, value |-> value, bank |-> bank, prefix |-> ""]

MissingFieldIssue(field, bank) == Issue("missing_field", field, PyNone, bank)
InvalidRateIssue(rate) == Issue("invalid_rate", "", rate, "")
InvalidAmountIssue(amount) == Issue("invalid_amount", "", amount, "")
NoDateIssue == Issue("no_date", "", PyNone, "")
OutdatedIssue(date_field) == Issue("outdated", "", date_field, "")
MissingSectionIssue == Issue("missing_section", "", PyNone, "")
UnknownProductTypeIssue(product_type) == Issue("unknown_product_type", product_type, PyNone, "")
InconsistentFieldsIssue(bank) == Issue("inconsistent_fields", "", PyNone, bank)
Prefixed(bank, issue) == [issue EXCEPT !.prefix = bank]

(* The values the `in` operator and .get() raise on: `name in data` raises  *)
(* TypeError for None and numbers.                                          *)
NotIterable(data) == data.t \in {"NoneType", "bool", "int", "float"}

_is_number(s) == ParseFloat(ReplaceChar(s, ",", ".")).ok

_is_valid_rate_string(rate_str) ==
    IF ~IsStr(rate_str) THEN FALSE
    ELSE Bind(Remove(Remove(Remove(rate_str.s, "%"), " "), RUB), LAMBDA cleaned :
             IF Contains(cleaned, <<"-">>)
             THEN \A i \in 1..Len(Split(cleaned, "-")) : _is_number(Split(cleaned, "-")[i])
             ELSE IF StartsWith(cleaned, Do) THEN _is_number(Strip(RemoveSub(cleaned, Do)))
             ELSE _is_number(cleaned))

_is_valid_amount_string(amount_str) ==
    IF Contains(amount_str, <<"_B">> \o Tail(Besplatno)) \/ Contains(amount_str, ND) THEN TRUE
    ELSE Bind(Remove(Remove(Remove(amount_str, RUB), " "), ","), LAMBDA cleaned :
             IF Contains(cleaned, <<"_D", "_o">>) \/ Contains(Lower(cleaned), Do) THEN TRUE
             ELSE _is_number(cleaned) \/ Contains(cleaned, <<"-">>))

(* The issue, if any, of one rate field of _validate_field_formats. *)
RateFormatIssues(data, rate_field) ==
    IF ~Has(data, rate_field) THEN <<>>
    ELSE Bind(Item(data, rate_field), LAMBDA rate :
             IF /\ Truthy(rate)
                /\ rate \notin {PyStr(Net), PyStr(ND)}
                /\ rate.t \notin {"int", "float", "bool"}
                /\ ~_is_valid_rate_string(rate)
             THEN <<InvalidRateIssue(rate)>>
             ELSE <<>>)

(* The issue, if any, of one amount field of _validate_field_formats. *)
AmountFormatIssues(data, amount_field) ==
    IF ~Has(data, amount_field) THEN <<>>
    ELSE Bind(Item(data, amount_field), LAMBDA amount :
             IF Truthy(amount) /\ ~_is_valid_amount_string(Str(amount))
             THEN <<InvalidAmountIssue(amount)>>
             ELSE <<>>)

_validate_field_formats(data, product_type) ==
    RateFormatIssues(data, "stavka") \o RateFormatIssues(data, "procent")
    \o AmountFormatIssues(data, "limit") \o AmountFormatIssues(data, "kreditnyj_limit")
    \o AmountFormatIssues(data, "summa")

(* _check_data_freshness, the year of datetime.now() being current_year *)
_check_data_freshness(data, current_year) ==
    Bind(Get(data, "data", PyNone), LAMBDA date_field :
        IF ~Truthy(date_field) THEN <<NoDateIssue>>
        ELSE IF ~Contains(Str(date_field), NatToStr(current_year))
        THEN <<OutdatedIssue(date_field)>>
        ELSE <<>>)

(* The names _check_field_exists looks for: all possible names and, once    *)
(* more, the sources of the product's own mapping.                          *)
_check_field_exists(data, normalized_field, mapping) ==
    \E name \in get_all_possible_field_names(normalized_field)
                \cup SourcesOf(mapping, normalized_field) :
        Has(data, name) \/ name \in NESTED_FIELD_HANDLERS

(* The values _get_field_value can return: the value under the first of the *)
(* possible names that is a key of data, in the order of the list, or None. *)
DataValidator_get_field_value(data, normalized_field, mapping) ==
    IF \E name \in get_all_possible_field_names(normalized_field) : Has(data, name)
    THEN {Item(data, name) :
             name \in {n \in get_all_possible_field_names(normalized_field) : Has(data, n)}}
    ELSE {PyNone}

(* schema.get("fields", []) without "bank" *)
RequiredFields(product_type) ==
    SelectSeq(get_schema(product_type), LAMBDA field : field # "bank")

(* The required-field loop of validate_product_data. *)
MissingFieldIssues(data, product_type, bank) ==
    Bind(SelectSeq(RequiredFields(product_type),
                   LAMBDA field : ~_check_field_exists(data, field,
                                                       get_mapping_for_product(product_type))),
         LAMBDA missing : [i \in 1..Len(missing) |-> MissingFieldIssue(missing[i], bank)])

(* validate_product_data(data, product_type, bank) for data a mapping, None *)
(* or a number: the tuple (is_valid, issues).  The branch for an unknown    *)
(* product type is taken when get_schema returns an empty schema.           *)
validate_product_data(data, product_type, bank, current_year) ==
    IF get_schema(product_type) = <<>>
    THEN Return([is_valid |-> FALSE, issues |-> <<UnknownProductTypeIssue(product_type)>>])
    ELSE IF NotIterable(data) THEN Raise("TypeError")
    ELSE Bind(MissingFieldIssues(data.d, product_type, bank)
              \o _validate_field_formats(data.d, product_type)
              \o _check_data_freshness(data.d, current_year),
              LAMBDA issues : Return([is_valid |-> Len(issues) = 0, issues |-> issues]))

RECURSIVE Concat(_)
Concat(lists) == IF lists = <<>> THEN <<>> ELSE Head(lists) \o Concat(Tail(lists))

(* The issues of the banks of validate_comparison_data whose fields are not *)
(* all the fields of the file.                                              *)
InconsistentFieldsIssues(banks_data) ==
    Bind(UNION {Range(DictKeys(banks_data[i][2].d)) : i \in 1..Len(banks_data)},
         LAMBDA all_fields :
             Concat([i \in 1..Len(banks_data) |->
                        IF all_fields \ Range(DictKeys(banks_data[i][2].d)) # {}
                        THEN <<InconsistentFieldsIssue(banks_data[i][1])>>
                        ELSE <<>>]))

(* The issues of every bank's record, each behind the bank's label. *)
BankIssues(banks_data, product_type, current_year) ==
    Concat([i \in 1..Len(banks_data) |->
               Bind(validate_product_data(banks_data[i][2], product_type, banks_data[i][1],
                                          current_year).v.issues,
                    LAMBDA bank_issues :
                        [j \in 1..Len(bank_issues) |->
                            Prefixed(banks_data[i][1], bank_issues[j])])])

(* validate_comparison_data(comparison_data, product_type): .get() of a     *)
(* value that is no mapping, .items() of a truthy section that is no        *)
(* mapping and .keys() of a bank entry that is no mapping raise             *)
(* AttributeError.                                                          *)
validate_comparison_data(comparison_data, product_type, current_year) ==
    IF ~IsDict(comparison_data) THEN Raise("AttributeError")
    ELSE Bind(Get(comparison_data.d, "banki", PyDict(<<>>)), LAMBDA banks_data :
        IF ~Truthy(banks_data)
        THEN Return([is_valid |-> FALSE, issues |-> <<MissingSectionIssue>>])
        ELSE IF ~IsDict(banks_data) THEN Raise("AttributeError")
        ELSE IF \E i \in 1..Len(banks_data.d) : ~IsDict(banks_data.d[i][2])
        THEN Raise("AttributeError")
        ELSE Bind(InconsistentFieldsIssues(banks_data.d)
                  \o BankIssues(banks_data.d, product_type, current_year),
                  LAMBDA issues : Return([is_valid |-> Len(issues) = 0, issues |-> issues])))

(* fields_present / len(required_fields), kept as the exact quotient *)
TrueDiv(n, d) == [t |-> "float", n |-> n, d |-> d]

(* value and value not in ["Н/Д", "N/A", "Н/Д", "", "None"] *)
Counted(value) ==
    /\ Truthy(value)
    /\ value \notin {PyStr(ND), PyStr(<<"N", "/", "A">>), PyStr(<<>>),
                     PyStr(<<"N", "o", "n", "e">>)}

RECURSIVE FieldsPresent(_, _, _)
(* The values fields_present can end with over the given fields: one for    *)
(* each choice of the value _get_field_value returns for a field.           *)
FieldsPresent(data, fields, mapping) ==
    IF fields = <<>> THEN {0}
    ELSE {a + b :
            a \in IF ~_check_field_exists(data, Head(fields), mapping) THEN {0}
                  ELSE {IF Counted(value) THEN 1 ELSE 0 :
                           value \in DataValidator_get_field_value(data, Head(fields), mapping)},
            b \in FieldsPresent(data, Tail(fields), mapping)}

(* get_data_completeness_score(data, product_type): the outcomes the call   *)
(* can have, one for each value fields_present can end with.  The required  *)
(* fields of a schema are never empty.                                      *)
get_data_completeness_score(data, product_type) ==
    IF NotIterable(data) THEN {Raise("TypeError")}
    ELSE {Return(TrueDiv(n, Len(RequiredFields(product_type)))) :
             n \in FieldsPresent(data.d, RequiredFields(product_type),
                                 get_mapping_for_product(product_type))}

-----------------------------------------------------------------------------
(* The state machine.  DataNormalizer and ProductComparator keep no fields: *)
(* the state is the latest call (the method and its arguments), what it     *)
(* returned or raised, and, when the call was made on the outcome of the    *)
(* call before it, that earlier call and its outcome.  A behaviour is one   *)
(* call on arguments drawn from the input sets, then the calls made on its  *)
(* outcome.                                                                 *)

(* The most fields a raw record of the model has. *)
MaxFields == 2

Idle == [op |-> "none"]

S(text) == PyStr(text)

Percent199 == <<"1", "9", ".", "9", "%">>
Percent225 == <<"2", "2", ".", "5", "%">>
Percent179 == <<"1", "7", ".", "9", "%">>
Percent23 == <<"2", "3", "%">>
Percent0 == <<"0", "%">>
PercentInf == <<"i", "n", "f", "%">>
Range98to259 == <<"9", ".", "8", "-", "2", "5", ".", "9", "%">>
Days120 == <<"1", "2", "0", " ">> \o Dnej
Rub0 == <<"0", RUB>>
Rub990 == <<"9", "9", "0", RUB>>
UpTo30 == Do \o <<" ", "3", "0", "%">>

(* The raw values handed to the formatters: null, booleans, numbers,        *)
(* strings and nested mappings.                                             *)
FormatValues ==
    { PyNone, PyBool(TRUE), PyBool(FALSE),
      PyInt(0), PyInt(5), PyInt(990), PyInt(1234567), PyInt(-5),
      PyFloat(0, 0), PyFloat(3, 1), PyFloat(199, 1), PyInf,
      S(<<>>), S(<<"0">>), S(<<"2", "0">>), S(Percent199),
      S(<<"9", ".", "8", " ", "-", " ", "2", "5", ".", "9">>),
      S(ND), S(Net), S(<<"_B">> \o Tail(Besplatno)), S(Rub990),
      S(UpTo30), S(Days120), S(<<"a", "b", "c">>),
      PyDict(<< <<"pokupki", S(Days120)>> >>), PyDict(<<>>) }

(* Amounts of thirteen and sixteen digits: 1234567890123, 2^53 and 2^53 + 1. *)
WideAmounts ==
    { PyBigInt(<<"1", "2", "3", "4", "5", "6", "7", "8", "9", "0", "1", "2", "3">>),
      PyBigInt(TwoTo53),
      PyBigInt(Increment(TwoTo53)) }

(* The field names and values of the raw records. *)
RawKeys ==
    <<"nazvanie", "karta", "stavka", "grejs_period", "stoimost", "limit",
      "minimalnyj_platezh", "srok">>

RawValues ==
    { PyNone, PyInt(0), PyInt(12), PyInf, S(Percent199), S(ND),
      PyDict(<< <<"pokupki", S(Days120)>> >>) }

RECURSIVE RecordsFrom(_, _)
(* The records of at most n fields whose keys are RawKeys[k], RawKeys[k+1], ... in this order. *)
RecordsFrom(k, n) ==
    IF n = 0 \/ k > Len(RawKeys) THEN {<<>>}
    ELSE RecordsFrom(k + 1, n)
         \cup {<<<<RawKeys[k], v>>>> \o rest : v \in RawValues, rest \in RecordsFrom(k + 1, n - 1)}

RawRecords == RecordsFrom(1, MaxFields)

Sber == S(<<"_S", "_b", "_e", "_r">>)
Vtb == S(<<"_V", "_T", "_B">>)

(* The records handed to the comparator: canonical attributes in schema     *)
(* order, each present or absent, and one record in another key order.      *)
Optional(key, values) == {<<>>} \cup {<< <<key, v>> >> : v \in values}

CompareRecords(bank) ==
    { << <<"bank", bank>> >> \o rate \o fee \o cashback :
        rate \in Optional("interest_rate",
                          {S(Percent199), S(Percent225), S(Percent179), S(Percent23), S(Percent0),
                           S(Range98to259), S(PercentInf), S(ND)}),
        fee \in Optional("annual_fee", {S(Rub0), S(Rub990), S(ND)}),
        cashback \in Optional("cashback", {S(UpTo30)}) }
    \cup { << <<"annual_fee", S(Rub990)>>, <<"interest_rate", S(Percent199)>> >> }

(* The raw cards the application loads for the two banks. *)
Cards ==
    { rate \o fee :
        rate \in Optional("stavka", {S(Percent199), S(Percent179), S(Percent0)}),
        fee \in Optional("stoimost", {PyInt(0), S(Rub990), S(ND)}) }

(* The advantage lists handed to _get_recommendation directly. *)
AdvantageLists ==
    { <<>>, <<NoAdvantages>>, <<LowerRateMsg \o Percent199>>,
      <<LowerRateMsg \o Percent199, LowerFeeMsg \o Rub0>> }

(* The raw name a record uses for an attribute: the names of the files of   *)
(* one bank (spelling 1) or of the comparison files (spelling 2).           *)
RawName(field, spelling) ==
    CASE field = "product_name" -> IF spelling = 1 THEN "nazvanie" ELSE "karta"
      [] field = "interest_rate" -> IF spelling = 1 THEN "stavka" ELSE "procentnaya_stavka"
      [] field = "grace_period" -> IF spelling = 1 THEN "grejs_period" ELSE "lgotnyj_period"
      [] field = "cashback" -> IF spelling = 1 THEN "keshbek" ELSE "kehshbehk"
      [] field = "annual_fee" -> IF spelling = 1 THEN "stoimost" ELSE "stoimost_obsluzhivaniya"
      [] field = "max_limit" -> IF spelling = 1 THEN "limit" ELSE "kreditnyj_limit"
      [] field = "max_amount" -> IF spelling = 1 THEN "maksimalnaya_summa" ELSE "summa"
      [] field = "min_salary_requirement" -> "min_zarplata"
      [] field = "commission" -> "komissiya"
      [] field = "term_months" -> "srok"
      [] field = "min_amount" -> "minimalnaya_summa"
      [] field = "replenishment" -> "popolnenie"
      [] field = "early_withdrawal" -> "dosrochnoe_snyatie"
      [] field = "insurance" -> "strahovanie"
      [] field = "approval_time" -> "vremya_odobreniya"
      [] field = "min_score" -> "min_skor"

Spellings == {1, 2}

November2026 == <<"_n", "_o", "_ya", "_b", "_r", "_soft", " ", "2", "0", "2", "6">>

(* The years datetime.now() can be in. *)
CurrentYears == {2026, 2027}

(* A record with a meaningful value for every required attribute. *)
FullRecord(product_type, spelling) ==
    [i \in 1..Len(RequiredFields(product_type)) |->
        <<RawName(RequiredFields(product_type)[i], spelling),
          IF RequiredFields(product_type)[i] = "interest_rate" THEN S(Percent199) ELSE PyInt(12)>>]

(* The values a field of a full record is replaced by. *)
Replacements == {PyInt(0), PyBool(FALSE), S(ND), S(<<"a", "b", "c">>)}

(* The full records, and those with one field replaced or removed. *)
NearlyFullRecords(product_type) ==
    UNION { {FullRecord(product_type, spelling)}
            \cup {[FullRecord(product_type, spelling) EXCEPT ![i][2] = v] :
                     i \in 1..Len(RequiredFields(product_type)), v \in Replacements}
            \cup {SelectSeq(FullRecord(product_type, spelling),
                            LAMBDA item : item[1] # RawName(field, spelling)) :
                     field \in Range(RequiredFields(product_type))} :
            spelling \in Spellings }

(* The records of at most one field, two records that hold an attribute     *)
(* under two of its names, and one that holds it under its canonical name.  *)
SparseRecords ==
    {<<>>}
    \cup {<< <<k, v>> >> :
            k \in {"stavka", "procent", "grejs_period", "stoimost", "limit", "summa", "srok"},
            v \in {PyNone, PyInt(0), PyInt(12), S(Percent199), S(ND), S(<<"a", "b", "c">>),
                   S(Do \o <<" ", "a">>), PyDict(<< <<"pokupki", S(Days120)>> >>)}}
    \cup { << <<"stavka", S(ND)>>, <<"procent", S(Percent199)>> >>,
           << <<"stoimost", PyInt(0)>>, <<"stoimost_obsluzhivaniya", S(Rub990)>> >>,
           << <<"interest_rate", S(Percent199)>> >> }

(* The data handed to the validator for a product type: records with and    *)
(* without a date, and values that are no mapping.                          *)
ValidatorData(product_type) ==
    {PyDict(record \o date) :
        record \in NearlyFullRecords(product_type) \cup SparseRecords,
        date \in Optional("data", {S(November2026)})}
    \cup {PyNone, PyInt(5)}

(* The entries of the banks section of a comparison file. *)
BankEntries ==
    { PyDict(<<>>), PyDict(FullRecord("deposit", 1)),
      PyDict(FullRecord("deposit", 1) \o << <<"data", S(November2026)>> >>),
      PyDict(<< <<"stavka", S(<<"a", "b", "c">>)>> >>), S(<<"a", "b", "c">>), PyNone }

(* The comparison files: no mapping, no banks section, a section that is no *)
(* mapping, a section of one bank and of two.                               *)
ComparisonData ==
    { PyNone, PyDict(<<>>), PyDict(<< <<"banki", PyNone>> >>),
      PyDict(<< <<"banki", S(<<"a", "b", "c">>)>> >>) }
    \cup {PyDict(<< <<"banki", PyDict(<< <<"Sber", sber>> >>)>> >>) : sber \in BankEntries}
    \cup {PyDict(<< <<"banki", PyDict(<< <<"Sber", sber>>, <<"VTB", vtb>> >>)>> >>) :
             sber \in BankEntries, vtb \in BankEntries}

FormatOps ==
    {"_format_rate", "_format_amount", "_format_fee", "_format_period", "_format_cashback",
     "_format_bool"}

(* self.<op>(value) for a formatting method *)
Format(op, value) ==
    CASE op = "_format_rate" -> _format_rate(value)
      [] op = "_format_amount" -> _format_amount(value)
      [] op = "_format_fee" -> _format_fee(value)
      [] op = "_format_period" -> _format_period(value)
      [] op = "_format_cashback" -> _format_cashback(value)
      [] op = "_format_bool" -> _format_bool(value)

Init ==
    /\ call = Idle
    /\ result = Idle
    /\ prev = Idle

FormatRate ==
    /\ call = Idle
    /\ \E v \in FormatValues :
        /\ call' = [op |-> "_format_rate", value |-> v]
        /\ result' = _format_rate(v)
    /\ prev' = Idle

FormatAmount ==
    /\ call = Idle
    /\ \E v \in FormatValues \cup WideAmounts :
        /\ call' = [op |-> "_format_amount", value |-> v]
        /\ result' = _format_amount(v)
    /\ prev' = Idle

FormatFee ==
    /\ call = Idle
    /\ \E v \in FormatValues :
        /\ call' = [op |-> "_format_fee", value |-> v]
        /\ result' = _format_fee(v)
    /\ prev' = Idle

FormatPeriod ==
    /\ call = Idle
    /\ \E v \in FormatValues :
        /\ call' = [op |-> "_format_period", value |-> v]
        /\ result' = _format_period(v)
    /\ prev' = Idle

FormatCashback ==
    /\ call = Idle
    /\ \E v \in FormatValues :
        /\ call' = [op |-> "_format_cashback", value |-> v]
        /\ result' = _format_cashback(v)
    /\ prev' = Idle

FormatBool ==
    /\ call = Idle
    /\ \E v \in FormatValues :
        /\ call' = [op |-> "_format_bool", value |-> v]
        /\ result' = _format_bool(v)
    /\ prev' = Idle

(* The formatted value is formatted again by the same method. *)
Reformat ==
    /\ call.op \in FormatOps
    /\ prev = Idle
    /\ result.ok
    /\ call' = [op |-> call.op, value |-> result.v]
    /\ result' = Format(call.op, result.v)
    /\ prev' = [call |-> call, result |-> result]

NormalizeCall(product_type, raw_data, bank) ==
    [op |-> "normalize", product_type |-> product_type, raw_data |-> raw_data, bank |-> bank]

NormalizeCreditCard ==
    /\ call = Idle
    /\ \E raw \in RawRecords :
        /\ call' = NormalizeCall("credit_card", raw, Sber)
        /\ result' = normalize_credit_card(raw, Sber)
    /\ prev' = Idle

NormalizeDebitCard ==
    /\ call = Idle
    /\ \E raw \in RawRecords :
        /\ call' = NormalizeCall("debit_card", raw, Sber)
        /\ result' = normalize_debit_card(raw, Sber)
    /\ prev' = Idle

NormalizeDeposit ==
    /\ call = Idle
    /\ \E raw \in RawRecords :
        /\ call' = NormalizeCall("deposit", raw, Sber)
        /\ result' = normalize_deposit(raw, Sber)
    /\ prev' = Idle

NormalizeConsumerLoan ==
    /\ call = Idle
    /\ \E raw \in RawRecords :
        /\ call' = NormalizeCall("consumer_loan", raw, Sber)
        /\ result' = normalize_consumer_loan(raw, Sber)
    /\ prev' = Idle

(* The canonical record is normalized again, as the same product type. *)
Renormalize ==
    /\ call.op = "normalize"
    /\ prev = Idle
    /\ result.ok
    /\ call' = NormalizeCall(call.product_type, result.v.d, call.bank)
    /\ result' = Normalize(call.product_type, result.v.d, call.bank)
    /\ prev' = [call |-> call, result |-> result]

CompareCall(sber_data, competitor_data, product_type) ==
    [op |-> "compare_products", sber_data |-> sber_data,
     competitor_data |-> competitor_data, product_type |-> product_type]

CompareProducts ==
    /\ call = Idle
    /\ \E sber_data \in CompareRecords(Sber), competitor_data \in CompareRecords(Vtb),
          product_type \in ProductTypes :
        /\ call' = CompareCall(sber_data, competitor_data, product_type)
        /\ result' = Return(compare_products(sber_data, competitor_data, product_type))
    /\ prev' = Idle

(* The same two records are compared again with the sides exchanged. *)
CompareSwapped ==
    /\ call.op = "compare_products"
    /\ prev = Idle
    /\ call' = CompareCall(call.competitor_data, call.sber_data, call.product_type)
    /\ result' = Return(compare_products(call.competitor_data, call.sber_data, call.product_type))
    /\ prev' = [call |-> call, result |-> result]

GetRecommendation ==
    /\ call = Idle
    /\ \E sber_advantages \in AdvantageLists, competitor_advantages \in AdvantageLists :
        /\ call' = [op |-> "_get_recommendation", sber_advantages |-> sber_advantages,
                    competitor_advantages |-> competitor_advantages]
        /\ result' = Return(_get_recommendation(sber_advantages, competitor_advantages))
    /\ prev' = Idle

(* The rates handed to _extract_rate directly. *)
RateStrings ==
    { PyNone, S(<<>>), S(ND), S(<<"a", "b", "c">>), S(UpTo30),
      S(Percent199), S(Percent0), S(<<"2", "0">>), S(<<"1", "9", ".", "9", " ", "%">>),
      S(Rub990), S(Range98to259),
      S(<<"1", "7", ".", "9", "%", " ", "-", " ", "2", "5", ".", "9", "%">>),
      S(<<"-", "5", "%">>), S(PercentInf), PyFloat(199, 1), PyInt(0) }

ExtractRate ==
    /\ call = Idle
    /\ \E rate_str \in RateStrings :
        /\ call' = [op |-> "_extract_rate", rate_str |-> rate_str]
        /\ result' = Return(_extract_rate(rate_str))
    /\ prev' = Idle

(* normalizer_func selecting normalize_deposit for every product type. *)
NormalizerFuncAlwaysDeposit(product_type, card, bank) == normalize_deposit(card, bank)

(* app/main.py: the normalizer the application selects for a product type. *)
normalizer_func(product_type, card, bank) ==
    CASE product_type = "credit_card" -> normalize_credit_card(card, bank)
      [] product_type = "debit_card" -> normalize_deposit(card, bank)
      [] product_type = "deposit" -> normalize_deposit(card, bank)
      [] product_type = "consumer_loan" -> normalize_consumer_loan(card, bank)

(* app/main.py, the analysis without the LLM: both cards are normalized and *)
(* the canonical records are compared.                                      *)
Analyze ==
    /\ call = Idle
    /\ \E sber_card \in Cards, competitor_card \in Cards, product_type \in ProductTypes :
        /\ call' = [op |-> "analyze", sber_card |-> sber_card,
                    competitor_card |-> competitor_card, product_type |-> product_type]
        /\ result' =
              Bind(normalizer_func(product_type, competitor_card, Vtb), LAMBDA competitor_normalized :
              Bind(normalizer_func(product_type, sber_card, Sber), LAMBDA sber_normalized :
                  IF ~competitor_normalized.ok THEN competitor_normalized
                  ELSE IF ~sber_normalized.ok THEN sber_normalized
                  ELSE Return([sber_normalized |-> sber_normalized.v,
                               competitor_normalized |-> competitor_normalized.v,
                               comparison |-> compare_products(sber_normalized.v.d,
                                                               competitor_normalized.v.d,
                                                               product_type)])))
    /\ prev' = Idle

ValidateProductData ==
    /\ call = Idle
    /\ \E product_type \in ProductTypes \cup {"mortgage"}, current_year \in CurrentYears :
        \E data \in ValidatorData(product_type) :
            /\ call' = [op |-> "validate_product_data", data |-> data,
                        product_type |-> product_type, bank |-> "Sber",
                        current_year |-> current_year]
            /\ result' = validate_product_data(data, product_type, "Sber", current_year)
    /\ prev' = Idle

ValidateComparisonData ==
    /\ call = Idle
    /\ \E comparison_data \in ComparisonData, product_type \in ProductTypes,
          current_year \in CurrentYears :
        /\ call' = [op |-> "validate_comparison_data", comparison_data |-> comparison_data,
                    product_type |-> product_type, current_year |-> current_year]
        /\ result' = validate_comparison_data(comparison_data, product_type, current_year)
    /\ prev' = Idle

GetDataCompletenessScore ==
    /\ call = Idle
    /\ \E product_type \in ProductTypes :
        \E data \in ValidatorData(product_type) :
            /\ call' = [op |-> "get_data_completeness_score", data |-> data,
                        product_type |-> product_type]
            /\ result' \in get_data_completeness_score(data, product_type)
    /\ prev' = Idle

(* The attributes of a DataNormalizer, a ProductComparator and a            *)
(* DataValidator after construction: validation_results of the validator,   *)
(* the only attribute any of them has.                                      *)
FreshInstances == [validation_results |-> <<>>]

MaxCalls == 3

(* The arguments of the calls made on one set of instances. *)
SessionArgs(method) ==
    CASE method = "normalize" ->
             {[product_type |-> product_type, raw_data |-> raw_data, bank |-> Sber] :
                 product_type \in ProductTypes,
                 raw_data \in {<<>>, << <<"stavka", S(Percent199)>>, <<"stoimost", PyInt(0)>> >>}}
      [] method = "compare_products" ->
             {[sber_data |-> sber_data, competitor_data |-> competitor_data,
               product_type |-> product_type] :
                 sber_data \in {<<>>, << <<"interest_rate", S(Percent199)>> >>},
                 competitor_data \in {<<>>, << <<"interest_rate", S(Percent179)>> >>},
                 product_type \in {"credit_card", "deposit"}}
      [] method = "validate_product_data" ->
             {[data |-> data, product_type |-> product_type, bank |-> "Sber",
               current_year |-> 2026] :
                 data \in {PyNone, PyDict(<<>>), PyDict(FullRecord("deposit", 1))},
                 product_type \in {"credit_card", "deposit"}}

SessionMethods == {"normalize", "compare_products", "validate_product_data"}

(* A validator that keeps the issues of every call in validation_results   *)
(* and reports all of them.                                                 *)
InvokeRecording(self, method, args) ==
    IF method = "validate_product_data"
    THEN Bind(validate_product_data(args.data, args.product_type, args.bank, args.current_year),
              LAMBDA outcome :
                  IF ~outcome.ok THEN [self |-> self, args |-> args, outcome |-> outcome]
                  ELSE Bind(self.validation_results \o outcome.v.issues, LAMBDA recorded :
                      [self |-> [validation_results |-> recorded], args |-> args,
                       outcome |-> Return([is_valid |-> Len(recorded) = 0,
                                           issues |-> recorded])]))
    ELSE [self |-> self, args |-> args,
          outcome |-> IF method = "normalize"
                      THEN Normalize(args.product_type, args.raw_data, args.bank)
                      ELSE Return(compare_products(args.sber_data, args.competitor_data,
                                                   args.product_type))]

(* A call of normalize_<product_type>, compare_products or                  *)
(* validate_product_data on instances with the attributes self: the         *)
(* attributes and the argument records after the call, and its outcome.     *)
(* None of the three methods, nor a method they call, assigns to an         *)
(* attribute of an instance or to an item of an argument.                   *)
Invoke(self, method, args) ==
    [self |-> self, args |-> args,
     outcome |->
        CASE method = "normalize" -> Normalize(args.product_type, args.raw_data, args.bank)
          [] method = "compare_products" ->
                 Return(compare_products(args.sber_data, args.competitor_data,
                                         args.product_type))
          [] method = "validate_product_data" ->
                 validate_product_data(args.data, args.product_type, args.bank,
                                       args.current_year)]

(* The first call on fresh instances. *)
SessionCall ==
    /\ call = Idle
    /\ \E method \in SessionMethods :
        \E args \in SessionArgs(method) :
            /\ call' = [op |-> "session", n |-> 1, self |-> FreshInstances,
                        method |-> method, args |-> args]
            /\ result' = Invoke(FreshInstances, method, args)
    /\ prev' = Idle

(* A further call on the instances the last call left, with the arguments   *)
(* of the last call as it left them or with other arguments.                *)
SessionCallAgain ==
    /\ call.op = "session"
    /\ call.n < MaxCalls
    /\ \E method \in SessionMethods :
        \E args \in SessionArgs(method) \cup (IF method = call.method THEN {result.args} ELSE {}) :
            /\ call' = [op |-> "session", n |-> call.n + 1, self |-> result.self,
                        method |-> method, args |-> args]
            /\ result' = Invoke(result.self, method, args)
    /\ prev' = [call |-> call, result |-> result]

FormatNext ==
    \/ FormatRate
    \/ FormatAmount
    \/ FormatFee
    \/ FormatPeriod
    \/ FormatCashback
    \/ FormatBool
    \/ Reformat

NormalizeNext ==
    \/ NormalizeCreditCard
    \/ NormalizeDebitCard
    \/ NormalizeDeposit
    \/ NormalizeConsumerLoan
    \/ Renormalize

CompareNext ==
    \/ CompareProducts
    \/ CompareSwapped
    \/ GetRecommendation
    \/ ExtractRate

AnalyzeNext == Analyze

ValidateNext ==
    \/ ValidateProductData
    \/ ValidateComparisonData
    \/ GetDataCompletenessScore

SessionNext ==
    \/ SessionCall
    \/ SessionCallAgain

Next ==
    \/ FormatNext
    \/ NormalizeNext
    \/ CompareNext
    \/ AnalyzeNext
    \/ ValidateNext
    \/ SessionNext

SpecFormat == Init /\ [][FormatNext]_vars

SpecNormalize == Init /\ [][NormalizeNext]_vars

SpecCompare == Init /\ [][CompareNext]_vars

SpecAnalyze == Init /\ [][AnalyzeNext]_vars

SpecValidate == Init /\ [][ValidateNext]_vars

SpecSession == Init /\ [][SessionNext]_vars

Spec == Init /\ [][Next]_vars

-----------------------------------------------------------------------------
(* Properties of the normalizer *)

(* C1: for every product type and every raw record, the key set of the      *)
(* record the normalizer returns is exactly {bank} plus the attributes that *)
(* product type's schema declares.                                          *)
C1_KeysAreTheDeclaredSchema ==
    (call.op = "normalize" /\ result.ok) =>
        Range(DictKeys(result.v.d)) = {"bank"} \cup Range(get_schema(call.product_type))

(* C2: when the extractor of one attribute raises, that attribute is the    *)
(* sentinel and every other attribute holds what its own extractor yields   *)
(* on the raw record; the call returns the whole record and never raises.   *)
C2_FailedExtractorYieldsSentinel ==
    (call.op = "normalize") =>
        /\ result.ok
        /\ Len(result.v.d) = Len(FieldExtractors(call.product_type)) + 1
        /\ \A i \in 1..Len(FieldExtractors(call.product_type)) :
              LET r == CallExtractor(FieldExtractors(call.product_type)[i][2], call.raw_data)
              IN  result.v.d[i + 1] =
                      <<FieldExtractors(call.product_type)[i][1],
                        IF r.ok /\ ~IsNone(r.v) THEN r.v ELSE PyStr(ND)>>

(* A record normalized while one extractor raised and another attribute     *)
(* was extracted to a value other than the sentinel.                        *)
C2_ExtractorRaised ==
    /\ call.op = "normalize"
    /\ result.ok
    /\ \E i \in 1..Len(FieldExtractors(call.product_type)) :
          /\ ~CallExtractor(FieldExtractors(call.product_type)[i][2], call.raw_data).ok
          /\ result.v.d[i + 1][2] = PyStr(ND)
    /\ \E j \in 2..Len(result.v.d) : result.v.d[j][2] # PyStr(ND)

(* C3: every value of a record the normalizer returns is a string.          *)
C3_ValuesAreStrings ==
    (call.op = "normalize" /\ result.ok) =>
        \A i \in 1..Len(result.v.d) : IsStr(result.v.d[i][2])

(* C4: each formatter maps the sentinel to the sentinel, and an attribute   *)
(* that is the sentinel in a canonical record is the sentinel again after   *)
(* that record is normalized a second time.                                 *)
C4_SentinelIsAFixedPoint ==
    /\ (call.op \in FormatOps /\ call.value = PyStr(ND)) => result = Return(PyStr(ND))
    /\ (call.op = "normalize" /\ prev # Idle) =>
          /\ result.ok
          /\ \A i \in 1..Len(prev.result.v.d) :
                prev.result.v.d[i][2] = PyStr(ND) =>
                    Get(result.v.d, prev.result.v.d[i][1], PyNone) = PyStr(ND)

(* A credit card record normalized a second time whose interest rate and    *)
(* annual fee, resolved through their canonical names and formatted again,  *)
(* were the sentinel in the first record.                                   *)
C4_SentinelRenormalized ==
    /\ call.op = "normalize"
    /\ prev # Idle
    /\ call.product_type = "credit_card"
    /\ Get(prev.result.v.d, "interest_rate", PyNone) = PyStr(ND)
    /\ Get(prev.result.v.d, "annual_fee", PyNone) = PyStr(ND)
    /\ Get(result.v.d, "interest_rate", PyNone) = PyStr(ND)
    /\ Get(prev.result.v.d, "product_name", PyNone) # PyStr(ND)

(* C5: no formatter raises, whatever the input value.                       *)
C5_FormattersNeverRaise ==
    (call.op \in FormatOps) => result.ok

(* C6: an attribute resolved through an alias list is derived from the      *)
(* value under the first alias present in the raw record, also when that    *)
(* value is 0 or false, and is the sentinel when no alias is present.       *)
C6_FalsyValuesAreKept ==
    (call.op = "normalize" /\ result.ok) =>
        \A i \in 1..Len(FieldExtractors(call.product_type)) :
            LET extractor == FieldExtractors(call.product_type)[i][2]
            IN  extractor.f # "lambda" =>
                    LET aliases == FieldAliases(extractor.f)
                        value == _get_field_value(call.raw_data, aliases)
                    IN  /\ (\A k \in 1..Len(aliases) : ~Has(call.raw_data, aliases[k]))
                               => result.v.d[i + 1][2] = PyStr(ND)
                        /\ value \in {PyInt(0), PyBool(FALSE)}
                               => result.v.d[i + 1][2] # PyStr(ND)

-----------------------------------------------------------------------------
(* Properties of the comparator *)

(* C7: the table of compare_products has one row per key of the reference   *)
(* record, in that record's key order; a row holds the reference value and  *)
(* the competitor's value for the key, or the sentinel when the competitor  *)
(* lacks it; a key of the competitor alone has no row.                      *)
C7_TableFollowsReferenceKeys ==
    (call.op = "compare_products") =>
        /\ Len(result.v.comparison_table) = Len(call.sber_data)
        /\ \A i \in 1..Len(call.sber_data) :
              /\ result.v.comparison_table[i].Parametr = call.sber_data[i][1]
              /\ result.v.comparison_table[i].Sber = call.sber_data[i][2]
              /\ result.v.comparison_table[i].Konkurent =
                    IF \E j \in 1..Len(call.competitor_data) :
                           call.competitor_data[j][1] = call.sber_data[i][1]
                    THEN Item(call.competitor_data, call.sber_data[i][1])
                    ELSE PyStr(ND)

(* A comparison where the competitor lacks a key of the reference record    *)
(* and has a key the reference record lacks.                                *)
C7_KeySetsDiffer ==
    /\ call.op = "compare_products"
    /\ \E i \in 1..Len(call.sber_data) : ~Has(call.competitor_data, call.sber_data[i][1])
    /\ \E j \in 1..Len(call.competitor_data) : ~Has(call.sber_data, call.competitor_data[j][1])
    /\ \E i \in 1..Len(result.v.comparison_table) :
          result.v.comparison_table[i].Konkurent = PyStr(ND)

(* C8: the recommendation depends on the lengths of the two advantage lists *)
(* only: the reference list longer, the competitor list longer and equal    *)
(* lengths each give their own one of three distinct sentences.             *)
C8_RecommendationFollowsLengths ==
    /\ Cardinality({SberBetter, CompetitorBetter, Comparable}) = 3
    /\ (call.op = "compare_products") =>
          result.v.recommendation =
              IF Len(result.v.sber_advantages) > Len(result.v.competitor_advantages)
              THEN SberBetter
              ELSE IF Len(result.v.sber_advantages) < Len(result.v.competitor_advantages)
              THEN CompetitorBetter
              ELSE Comparable
    /\ (call.op = "_get_recommendation") =>
          result.v =
              IF Len(call.sber_advantages) > Len(call.competitor_advantages)
              THEN SberBetter
              ELSE IF Len(call.sber_advantages) < Len(call.competitor_advantages)
              THEN CompetitorBetter
              ELSE Comparable

(* A comparison whose two advantage lists have the same length and whose    *)
(* recommendation is the sentence for comparable terms.                     *)
C8_EqualLengths ==
    /\ call.op = "compare_products"
    /\ Len(result.v.sber_advantages) = Len(result.v.competitor_advantages)
    /\ result.v.sber_advantages # result.v.competitor_advantages
    /\ result.v.recommendation = Comparable

(* C9: each advantage list of compare_products is non-empty; a side that    *)
(* wins no comparison has the placeholder as its only entry, and the        *)
(* placeholder never stands beside a real advantage.                        *)
C9_AdvantageListsNonEmpty ==
    (call.op = "compare_products") =>
        /\ \A list \in {result.v.sber_advantages, result.v.competitor_advantages} :
              /\ list # <<>>
              /\ (\E i \in 1..Len(list) : list[i] = NoAdvantages) => list = <<NoAdvantages>>
        /\ (RateAdvantage(call.sber_data, call.competitor_data, call.product_type) = <<>>
            /\ FeeAdvantage(call.sber_data, call.competitor_data) = <<>>)
              => result.v.sber_advantages = <<NoAdvantages>>
        /\ (RateAdvantage(call.competitor_data, call.sber_data, call.product_type) = <<>>
            /\ FeeAdvantage(call.competitor_data, call.sber_data) = <<>>)
              => result.v.competitor_advantages = <<NoAdvantages>>

(* A comparison where the reference side wins nothing and the competitor    *)
(* wins both the rate and the fee comparison.                               *)
C9_OneSideWinsNothing ==
    /\ call.op = "compare_products"
    /\ result.v.sber_advantages = <<NoAdvantages>>
    /\ Len(result.v.competitor_advantages) = 2

(* C10: with the two records exchanged, the reference-side advantages are   *)
(* the competitor-side advantages of the first comparison, and the          *)
(* competitor-side advantages are its reference-side advantages.            *)
C10_AdvantagesAreSideAgnostic ==
    (/\ call.op = "compare_products"
     /\ prev # Idle
     /\ call.sber_data = prev.call.competitor_data
     /\ call.competitor_data = prev.call.sber_data
     /\ call.product_type = prev.call.product_type) =>
        /\ result.v.sber_advantages = prev.result.v.competitor_advantages
        /\ result.v.competitor_advantages = prev.result.v.sber_advantages

(* Two records compared in both orders where one side has a real advantage  *)
(* and the other has none.                                                  *)
C10_SidesExchanged ==
    /\ call.op = "compare_products"
    /\ prev # Idle
    /\ call.sber_data = prev.call.competitor_data
    /\ call.competitor_data = prev.call.sber_data
    /\ result.v.sber_advantages # <<NoAdvantages>>
    /\ result.v.competitor_advantages = <<NoAdvantages>>

(* The parsed interest rate of a record handed to the comparator, and its   *)
(* parsed annual fee.                                                       *)
RateOf(record) == _extract_rate(Get(record, "interest_rate", PyNone))
FeeOf(record) == ParseFloat(Remove(Str(Get(record, "annual_fee", PyStr(ND))), RUB))

(* The entries of an advantage or insight list that begin with a message. *)
HasEntry(list, message) ==
    \E i \in 1..Len(list) :
        /\ Len(list[i]) >= Len(message)
        /\ SubSeq(list[i], 1, Len(message)) = message

HasRateAdvantage(list) == HasEntry(list, LowerRateMsg) \/ HasEntry(list, HigherRateMsg)

(* C11: when both interest rates parse, the side with the strictly lower    *)
(* rate has the rate advantage for the credit products (credit_card and     *)
(* consumer_loan), the side with the strictly higher rate has it for        *)
(* deposit, and equal rates give it to neither side.                        *)
C11_RateAdvantageFollowsProductType ==
    (/\ call.op = "compare_products"
     /\ call.product_type \in {"credit_card", "consumer_loan", "deposit"}
     /\ ~IsNone(RateOf(call.sber_data))
     /\ ~IsNone(RateOf(call.competitor_data))) =>
        LET sber_rate == RateOf(call.sber_data)
            comp_rate == RateOf(call.competitor_data)
            lower_wins == call.product_type \in {"credit_card", "consumer_loan"}
        IN  /\ HasRateAdvantage(result.v.sber_advantages) <=>
                  IF lower_wins THEN FloatLess(sber_rate, comp_rate)
                  ELSE FloatLess(comp_rate, sber_rate)
            /\ HasRateAdvantage(result.v.competitor_advantages) <=>
                  IF lower_wins THEN FloatLess(comp_rate, sber_rate)
                  ELSE FloatLess(sber_rate, comp_rate)


(* C12: for every product type, when both annual fees parse as numbers once *)
(* the currency marker is removed, the side with the strictly lower fee has *)
(* the fee advantage and the other side has not; when either fee is not a   *)
(* number (the sentinel and a missing key included) neither side has it;    *)
(* the comparison returns in every case.                                    *)
C12_FeeAdvantageToLowerFee ==
    (call.op = "compare_products") =>
        LET sber_fee == FeeOf(call.sber_data)
            comp_fee == FeeOf(call.competitor_data)
        IN  /\ result.ok
            /\ HasEntry(result.v.sber_advantages, LowerFeeMsg) <=>
                  (sber_fee.ok /\ comp_fee.ok /\ FloatLess(sber_fee.v, comp_fee.v))
            /\ HasEntry(result.v.competitor_advantages, LowerFeeMsg) <=>
                  (sber_fee.ok /\ comp_fee.ok /\ FloatLess(comp_fee.v, sber_fee.v))

(* A debit card comparison where the reference fee is the lower of two      *)
(* numeric fees and only the reference side has the fee advantage.          *)
C12_LowerFeeWins ==
    /\ call.op = "compare_products"
    /\ call.product_type = "debit_card"
    /\ Get(call.sber_data, "annual_fee", PyNone) = S(Rub0)
    /\ Get(call.competitor_data, "annual_fee", PyNone) = S(Rub990)
    /\ HasEntry(result.v.sber_advantages, LowerFeeMsg)
    /\ ~HasEntry(result.v.competitor_advantages, LowerFeeMsg)

(* C13: for credit_card, whenever both interest rates parse as numbers, a   *)
(* rate of 0 included, exactly one insight is emitted: the rates are        *)
(* practically identical when they differ by less than 0.1, else the        *)
(* reference wins when the competitor's rate minus the reference's is       *)
(* positive, else the competitor wins.                                      *)
C13_CreditCardEmitsOneInsight ==
    (/\ call.op = "compare_products"
     /\ call.product_type = "credit_card"
     /\ ~IsNone(RateOf(call.sber_data))
     /\ ~IsNone(RateOf(call.competitor_data))) =>
        LET diff == FloatSub(RateOf(call.competitor_data), RateOf(call.sber_data))
        IN  /\ Len(result.v.insights) = 1
            /\ IF FloatLess(FloatAbs(diff), Tenth)
               THEN result.v.insights[1] = RatesIdenticalMsg
               ELSE IF FloatLess(Zero, diff)
               THEN HasEntry(result.v.insights, SberWinsMsg)
               ELSE HasEntry(result.v.insights, CompetitorWinsMsg)

(* C14: for deposit, when both interest rates parse, a positive reference   *)
(* minus competitor difference emits the insight that the reference offers  *)
(* the higher rate, a competitor lead above 0.5 emits the insight that the  *)
(* competitor wins, a lead from 0 to 0.5 inclusive emits none, and at most  *)
(* one insight is emitted.                                                  *)
C14_DepositInsightThresholds ==
    (/\ call.op = "compare_products"
     /\ call.product_type = "deposit"
     /\ ~IsNone(RateOf(call.sber_data))
     /\ ~IsNone(RateOf(call.competitor_data))) =>
        LET diff == FloatSub(RateOf(call.sber_data), RateOf(call.competitor_data))
        IN  /\ Len(result.v.insights) <= 1
            /\ IF FloatLess(Zero, diff)
               THEN HasEntry(result.v.insights, SberHigherMsg)
               ELSE IF FloatLess(Half, FloatNeg(diff))
               THEN HasEntry(result.v.insights, CompetitorWinsMsg)
               ELSE result.v.insights = <<>>

(* C21: the recommendation names a side as better only when that side wins *)
(* both the rate and the fee comparison; a side that wins no comparison     *)
(* holds the one-entry placeholder list, so one win against none gives the  *)
(* recommendation for comparable terms, as one win each does.               *)
C21_BetterOnlyWithBothWins ==
    (call.op = "compare_products") =>
        LET sber_wins_both ==
                /\ HasRateAdvantage(result.v.sber_advantages)
                /\ HasEntry(result.v.sber_advantages, LowerFeeMsg)
            competitor_wins_both ==
                /\ HasRateAdvantage(result.v.competitor_advantages)
                /\ HasEntry(result.v.competitor_advantages, LowerFeeMsg)
        IN  result.v.recommendation =
                IF sber_wins_both THEN SberBetter
                ELSE IF competitor_wins_both THEN CompetitorBetter
                ELSE Comparable

(* A comparison where the reference wins the rate comparison alone and the  *)
(* competitor wins nothing.                                                 *)
C21_OneWinAgainstNone ==
    /\ call.op = "compare_products"
    /\ HasRateAdvantage(result.v.sber_advantages)
    /\ Len(result.v.sber_advantages) = 1
    /\ result.v.competitor_advantages = <<NoAdvantages>>
    /\ result.v.recommendation = Comparable

(* C23: the insights of compare_products never contradict its advantage    *)
(* lists: an insight that the reference wins on rate comes with a rate      *)
(* advantage in the reference's list and none in the competitor's, and an   *)
(* insight that the competitor wins on rate with a rate advantage in the    *)
(* competitor's list and none in the reference's.                           *)
C23_InsightsAgreeWithAdvantages ==
    (call.op = "compare_products") =>
        /\ (HasEntry(result.v.insights, SberWinsMsg) \/ HasEntry(result.v.insights, SberHigherMsg)) =>
              /\ HasRateAdvantage(result.v.sber_advantages)
              /\ ~HasRateAdvantage(result.v.competitor_advantages)
        /\ HasEntry(result.v.insights, CompetitorWinsMsg) =>
              /\ HasRateAdvantage(result.v.competitor_advantages)
              /\ ~HasRateAdvantage(result.v.sber_advantages)

-----------------------------------------------------------------------------
(* Properties of the analysis from raw cards to the comparison *)

(* C15: for credit_card, the raw reference card with rate "19.9%" and cost  *)
(* 0 normalizes to interest_rate "19.9%" and annual_fee "0₽", the raw       *)
(* competitor card with rate "17.9%" and cost "990₽" to "17.9%" and "990₽"; *)
(* their comparison emits the one insight that the competitor wins on rate  *)
(* by 2.0, lists the lower rate as the competitor's advantage and the lower *)
(* fee as the reference's, and recommends the terms as comparable.          *)
C15_ExampleComparison ==
    (/\ call.op = "analyze"
     /\ call.product_type = "credit_card"
     /\ call.sber_card = << <<"stavka", S(Percent199)>>, <<"stoimost", PyInt(0)>> >>
     /\ call.competitor_card = << <<"stavka", S(Percent179)>>, <<"stoimost", S(Rub990)>> >>) =>
        /\ result.ok
        /\ Get(result.v.sber_normalized.d, "interest_rate", PyNone) = S(Percent199)
        /\ Get(result.v.sber_normalized.d, "annual_fee", PyNone) = S(Rub0)
        /\ Get(result.v.competitor_normalized.d, "interest_rate", PyNone) = S(Percent179)
        /\ Get(result.v.competitor_normalized.d, "annual_fee", PyNone) = S(Rub990)
        /\ result.v.comparison.insights = <<CompetitorWinsMsg \o <<"2", ".", "0", "%">> >>
        /\ result.v.comparison.competitor_advantages = <<LowerRateMsg \o Percent179>>
        /\ result.v.comparison.sber_advantages = <<LowerFeeMsg \o Rub0>>
        /\ result.v.comparison.recommendation = Comparable

(* The two example cards analysed as credit cards. *)
C15_ExampleAnalyzed ==
    /\ call.op = "analyze"
    /\ call.product_type = "credit_card"
    /\ Get(call.sber_card, "stavka", PyNone) = S(Percent199)
    /\ Get(call.sber_card, "stoimost", PyNone) = PyInt(0)
    /\ Get(call.competitor_card, "stavka", PyNone) = S(Percent179)
    /\ Get(call.competitor_card, "stoimost", PyNone) = S(Rub990)
    /\ result.ok
    /\ Len(result.v.comparison.insights) = 1

(* C28: on the path without the LLM each of the four product types is      *)
(* normalized with its own configuration (credit_card by                    *)
(* normalize_credit_card, debit_card by normalize_debit_card, deposit by    *)
(* normalize_deposit, consumer_loan by normalize_consumer_loan), so the     *)
(* records handed to compare_products carry that product type's attributes. *)
C28_EachTypeItsOwnNormalizer ==
    (call.op = "analyze") =>
        /\ result.ok
        /\ Return(result.v.sber_normalized) = Normalize(call.product_type, call.sber_card, Sber)
        /\ Return(result.v.competitor_normalized)
               = Normalize(call.product_type, call.competitor_card, Vtb)
        /\ \A record \in {result.v.sber_normalized, result.v.competitor_normalized} :
              DictKeys(record.d)
                  = <<"bank">> \o [i \in 1..Len(FieldExtractors(call.product_type)) |->
                                      FieldExtractors(call.product_type)[i][1]]

-----------------------------------------------------------------------------
(* Properties of the validator *)

(* The raw names the validator knows for an attribute of a product type. *)
KnownNames(field, product_type) ==
    get_all_possible_field_names(field)
    \cup SourcesOf(get_mapping_for_product(product_type), field)

MissingFieldCount(issues, field) ==
    Cardinality({i \in 1..Len(issues) :
                    issues[i].issue = "missing_field" /\ issues[i].field = field})

(* C16: validate_product_data emits exactly one missing-field issue for     *)
(* each attribute of the schema other than bank none of whose known raw     *)
(* names is a key of the record, and none for an attribute with a name      *)
(* present or for bank.                                                     *)
C16_OneIssuePerMissingAttribute ==
    (call.op = "validate_product_data" /\ result.ok) =>
        /\ MissingFieldCount(result.v.issues, "bank") = 0
        /\ \A field \in Range(RequiredFields(call.product_type)) :
              MissingFieldCount(result.v.issues, field) =
                  IF \E name \in KnownNames(field, call.product_type) : Has(call.data.d, name)
                  THEN 0 ELSE 1

(* A value that is present and is no sentinel. *)
PresentNotSentinel(value) ==
    /\ ~IsNone(value)
    /\ value \notin {PyStr(ND), PyStr(<<"N", "/", "A">>), PyStr(<<>>),
                     PyStr(<<"N", "o", "n", "e">>)}

(* The values a record holds under the known names of an attribute. *)
ResolvedValues(data, field, product_type) ==
    {Item(data, name) : name \in {n \in KnownNames(field, product_type) : Has(data, n)}}

(* C17: the completeness score is the number of required attributes whose   *)
(* resolved value is present and no sentinel, falsy values such as 0 and    *)
(* false included, over the number of required attributes; it lies within   *)
(* [0, 1] and is 0 when every required attribute is missing or a sentinel.  *)
(* Where a record holds an attribute under several names, the count may     *)
(* resolve it to any of them.                                               *)
C17_ScoreCountsPresentValues ==
    (call.op = "get_data_completeness_score" /\ IsDict(call.data)) =>
        LET fields == Range(RequiredFields(call.product_type))
            surely == {f \in fields :
                          /\ ResolvedValues(call.data.d, f, call.product_type) # {}
                          /\ \A v \in ResolvedValues(call.data.d, f, call.product_type) :
                                PresentNotSentinel(v)}
            possibly == {f \in fields :
                            \E v \in ResolvedValues(call.data.d, f, call.product_type) :
                                PresentNotSentinel(v)}
        IN  /\ result.ok
            /\ result.v.d = Cardinality(fields)
            /\ result.v.n >= Cardinality(surely)
            /\ result.v.n <= Cardinality(possibly)
            /\ result.v.n >= 0 /\ result.v.n <= result.v.d

(* C18: for each product type, a record with a meaningful value for every   *)
(* required attribute scores 1.0, whichever of the attribute's raw names,   *)
(* of the files of one bank or of the comparison files, holds the value.    *)
C18_FullRecordScoresOne ==
    (/\ call.op = "get_data_completeness_score"
     /\ IsDict(call.data)
     /\ \A i \in 1..Len(RequiredFields(call.product_type)) :
           \E name \in KnownNames(RequiredFields(call.product_type)[i], call.product_type)
                       \cup {RawName(RequiredFields(call.product_type)[i], spelling) :
                                spelling \in Spellings} :
               Has(call.data.d, name) /\ Counted(Item(call.data.d, name))) =>
        /\ result.ok
        /\ result.v.n = result.v.d

(* C19: is_valid is true exactly when validate_product_data found no        *)
(* required-field issue and no format issue; a freshness warning is in the  *)
(* issue list without making the record invalid.                            *)
C19_FreshnessIsAdvisory ==
    (call.op = "validate_product_data" /\ result.ok) =>
        (result.v.is_valid <=>
            \A i \in 1..Len(result.v.issues) :
                result.v.issues[i].issue \notin {"missing_field", "invalid_rate", "invalid_amount"})

(* C20: validate_product_data, validate_comparison_data and                 *)
(* get_data_completeness_score return for every input, malformed ones       *)
(* included: values of any kind under a field, missing sections, bank       *)
(* entries that are no mapping, data that is no mapping.                    *)
C20_ValidatorNeverRaises ==
    (call.op \in {"validate_product_data", "validate_comparison_data",
                  "get_data_completeness_score"}) => result.ok

(* The text of a rate without percent and currency signs and surrounding   *)
(* blanks.                                                                  *)
RateText(text) == Strip(Remove(Remove(text, "%"), RUB))

(* C27: _extract_rate never raises; for a str it strips percent and         *)
(* currency signs, returns the parsed number for every numeric rate string, *)
(* the parsed first bound of a hyphen-joined range, and None for the empty  *)
(* string, the sentinel and every other string.                             *)
C27_ExtractRateParsesOrNone ==
    (call.op = "_extract_rate") =>
        /\ result.ok
        /\ IsStr(call.rate_str) =>
              result.v =
                  IF call.rate_str.s = <<>> \/ call.rate_str.s = ND THEN PyNone
                  ELSE IF ParseFloat(RateText(call.rate_str.s)).ok
                  THEN ParseFloat(RateText(call.rate_str.s)).v
                  ELSE IF Contains(call.rate_str.s, <<"-">>)
                          /\ ParseFloat(RateText(BeforeFirst(call.rate_str.s, "-"))).ok
                  THEN ParseFloat(RateText(BeforeFirst(call.rate_str.s, "-"))).v
                  ELSE PyNone

-----------------------------------------------------------------------------
(* Properties relating the normalizer and the validator                     *)

(* The attributes of the schema for which normalize_<product_type> stores a *)
(* value other than the sentinel.                                           *)
ResolvedByNormalizer(data, product_type) ==
    Bind(Normalize(product_type, data, Sber), LAMBDA normalized :
        IF ~normalized.ok THEN {}
        ELSE {field \in Range(RequiredFields(product_type)) :
                 /\ Has(normalized.v.d, field)
                 /\ Item(normalized.v.d, field) # PyStr(ND)})

(* C22: for every product type, attribute and raw record, when the          *)
(* normalizer resolves a value other than the sentinel for the attribute,   *)
(* validate_product_data reports no missing-field issue for it and          *)
(* get_data_completeness_score counts it, so the score is at least the      *)
(* number of attributes the normalizer resolves over the number required.   *)
C22_NormalizerAndValidatorAgree ==
    /\ (call.op = "validate_product_data" /\ call.product_type \in ProductTypes
           /\ IsDict(call.data)) =>
          \A field \in ResolvedByNormalizer(call.data.d, call.product_type) :
              MissingFieldCount(result.v.issues, field) = 0
    /\ (call.op = "get_data_completeness_score" /\ IsDict(call.data)) =>
          result.v.n >= Cardinality(ResolvedByNormalizer(call.data.d, call.product_type))

-----------------------------------------------------------------------------
(* Properties of the formatting methods on ranges, amounts and cashback     *)

(* C24: _format_rate of a value whose string form contains a hyphen returns *)
(* that string form with every space removed and otherwise unchanged, with  *)
(* no percent sign appended: "9.8 - 25.9" becomes "9.8-25.9".               *)
C24_RangeLosesSpacesOnly ==
    (/\ call.op = "_format_rate"
     /\ ~IsNone(call.value)
     /\ \E i \in 1..Len(Str(call.value)) : Str(call.value)[i] = "-") =>
        result = Return(PyStr(SelectSeq(Str(call.value), LAMBDA c : c # " ")))

(* The range "9.8 - 25.9" formatted to "9.8-25.9". *)
C24_SpacedRangeFormatted ==
    /\ call.op = "_format_rate"
    /\ call.value = S(<<"9", ".", "8", " ", "-", " ", "2", "5", ".", "9">>)
    /\ result = Return(S(<<"9", ".", "8", "-", "2", "5", ".", "9">>))

RECURSIVE SpaceGrouped(_)
(* Decimal digits in groups of three from the right, separated by spaces. *)
SpaceGrouped(digits) ==
    IF Len(digits) <= 3 THEN digits
    ELSE SpaceGrouped(SubSeq(digits, 1, Len(digits) - 3)) \o <<" ">>
         \o SubSeq(digits, Len(digits) - 2, Len(digits))

(* An int that is not negative. *)
IsNonNegativeInt(v) == v.t = "int" /\ (IsBig(v) \/ v.n >= 0)

(* C25: for every integer x >= 0, _format_amount(x) is the decimal digits   *)
(* of x grouped in threes by spaces and followed by the rouble sign, and    *)
(* formatting that result again returns it unchanged.                       *)
C25_AmountGroupedAndIdempotent ==
    /\ (call.op = "_format_amount" /\ IsNonNegativeInt(call.value)) =>
          result = Return(PyStr(SpaceGrouped(Str(call.value)) \o <<RUB>>))
    /\ (call.op = "_format_amount" /\ prev # Idle /\ IsNonNegativeInt(prev.call.value)) =>
          result = prev.result

(* A float from 0 to 1, both included. *)
IsFraction(v) ==
    /\ v.t = "float" /\ ~IsInf(v) /\ ~IsNaN(v) /\ ~IsBig(v)
    /\ v.num >= 0 /\ v.num <= Pow10(v.e)

(* C26: _format_cashback maps None to the sentinel, returns a str          *)
(* unchanged, maps a fractional number from 0 to 1 to "до N%" with N the    *)
(* value times 100 rounded to an integer, and returns the plain string form *)
(* of every other value, numbers outside that range included.               *)
C26_CashbackByKindOfValue ==
    (call.op = "_format_cashback") =>
        result =
            IF IsNone(call.value) THEN Return(PyStr(ND))
            ELSE IF IsStr(call.value) THEN Return(call.value)
            ELSE IF IsFraction(call.value)
            THEN Return(PyStr(Do \o <<" ">> \o IntToStr(RoundPercent(call.value)) \o <<"%">>))
            ELSE Return(PyStr(Str(call.value)))

-----------------------------------------------------------------------------
(* Properties of the validator on undeclared product types                  *)

(* The keys of SCHEMAS: the product types with a declared schema. *)
SCHEMAS == {"credit_card", "deposit", "consumer_loan"}

(* C29: validate_product_data called with a product type that has no        *)
(* declared schema returns (False, issues) with the unknown product type    *)
(* issue as the only issue; no field of the record is checked, against no   *)
(* other product type's schema.                                             *)
C29_UndeclaredTypeIsUnknown ==
    (call.op = "validate_product_data" /\ call.product_type \notin SCHEMAS) =>
        result = Return([is_valid |-> FALSE,
                         issues |-> <<UnknownProductTypeIssue(call.product_type)>>])

-----------------------------------------------------------------------------
(* Properties of sequences of calls on the same instances                   *)

====
